---- MODULE Spec2Model ----
(***************************************************************************)
(* OpsDesk (src/app.py, src/dsl.py): the menu navigation engine, the       *)
(* process execution / cancellation subsystem and the command history,    *)
(* as a state machine.  One action per event handler or per step of a     *)
(* background worker between two awaits; the child processes and the      *)
(* user are the environment.                                              *)
(*                                                                         *)
(* Workers are started with run_worker(..., exclusive=True) on the app,   *)
(* in the default group: Textual then cancels every worker of that group  *)
(* that is still running (asyncio task cancellation, delivered at the     *)
(* await the task is suspended on) and starts the new one.  Cancelling a  *)
(* task does not signal the child process that task was reading from.     *)
(***************************************************************************)
EXTENDS Integers, Sequences, FiniteSets, TLC

\* ------------------------------------------------------------- bounds
NumTabs == 2          \* tabs (one MenuPane each)
MaxJobs == 2          \* workers started: streamed runs + dynamic captures
FewJobs == 1          \* the same, in SpecFew
MaxOut == 1           \* lines one child process writes
MaxFiles == 1         \* files the picker's glob may match
MaxExpand == 2        \* picker expansions (fresh nodes synthesized)
MaxKills == 1         \* kill requests that write to the log
MaxInteractive == 1   \* interactive: commands
HistPushes == 4       \* commands handed to the history, in SpecHist
StreamOut == 51       \* lines the child process writes, in SpecStream
MaxSide == 2          \* copies, cancellations and interactive commands together
MaxLines == 2          \* lines a process writes under a menu pane
KillJobs == 2         \* streamed runs, in SpecKill
PipeCap == 8          \* lines a pipe holds between its writer and its reader

\* ------------------------------------------------- program constants
BatchSize == 50       \* runner flushes its batch at 50 buffered lines
max_lines == 500      \* run_and_capture's default cap
NoIdx == -1           \* _hist_idx = None (not navigating)
NoProc == 0           \* _current_proc = None
NoGlob == -1          \* files == [] and no glob
NoOrder == 9999       \* x.get("order", 9999)
Wide == 1000          \* more than the lines a process writes

Tabs == 1..NumTabs
\* Lines the listing command of SpecCap has to write: one more than the cap
\* and a full pipe together hold.
CapOut == max_lines + PipeCap + 1
ExitCodes == {0, 1}

\* ---------------------------------------------------------- text lines
\* A line of text: 0 is a blank line (nothing but whitespace); n in
\* 1..Wide-1 is the one-token line "pod-n"; n + Wide is the line "pod-n
\* 1/1 Running" of several tokens, and n + 2*Wide the same line with
\* whitespace before and behind it.

\* A plausible slip: the line is taken as it was read.
Strip_nothing(l) == l

\* l.strip()
Strip(l) == IF l > 2 * Wide THEN l - Wide ELSE l

\* A plausible slip: the whole line is taken for the name.
Name_whole_line(l) == l

\* tokens[0] of line.split(), for a stripped line that is not blank
Name(l) == l % Wide

\* ----------------------------------------------------------- commands
\* A command string: ia says whether it carries the "interactive:" prefix,
\* verb/file/pod are the rest of its text.  Of that text, bin is the tool
\* it begins with ("kubectl" bare, "KUBECTL" the configured binary, ""
\* anything else), kc the files its --kubeconfig flags name, in order (0:
\* a path of the author's), envp whether a VAR=<path> assignment precedes.
Cmd(ia, verb, file, pod) ==
    [ia |-> ia, verb |-> verb, file |-> file, pod |-> pod,
     bin |-> "", kc |-> <<>>, envp |-> FALSE]

\* f"{kubectl_q} --kubeconfig={shlex.quote(path)} ..."
Kubectl(cmd, kc) == [cmd EXCEPT !.bin = "KUBECTL", !.kc = kc]
EmptyCmd == Cmd(FALSE, "", 0, 0)
TypedCmds == {Cmd(FALSE, "ls", 0, 0), Cmd(FALSE, "pwd", 0, 0), Cmd(TRUE, "sh", 0, 0)}

\* A plausible slip: the prefix is left on the command.
StripInteractive_keeping(cmd) == cmd

\* cmd.strip()[len(INTERACTIVE_PREFIX):].strip()
StripInteractive(cmd) == [cmd EXCEPT !.ia = FALSE]

\* ------------------------------------------------------------- menu
\* A menu node (a dict of the program).  uid tells freshly synthesized
\* nodes of different expansions apart; idx and n depend on the kind:
\*   root   : idx = tab                          n = the menu (0: the app's)
\*   noglob : the picker's answer without files or glob configured
\*   picked : the picker's expansion             n = number of files matched
\*   file   : idx = file, of expansion uid       n = 0
\*   dyn    : idx = file, a dynamic expansion    n = number of entries
\*   entry  : idx = line, of expansion uid       n = file
\* acts are the action templates the node's items are rendered from, lines
\* the lines a dynamic expansion's entries are made of.
Node(kind, uid, idx, n) ==
    [kind |-> kind, uid |-> uid, idx |-> idx, n |-> n, acts |-> <<>>, lines |-> <<>>]
WithActs(node, acts) == [node EXCEPT !.acts = acts]
NoNode == Node("none", 0, 0, 0)
Root(t) == Node("root", 0, t, 0)

\* What stands for an expansion that raised instead of returning a node.
Raised == Node("raised", 0, 0, 0)

\* A key the item does not have (list_cmd, cmd); EmptyCmd is the key
\* present with an empty or blank string.
NoCmd == Cmd(FALSE, "(absent)", 0, 0)

\* A label: a text of the program or of the menu's author, or (n > 0) the
\* stem of file n, the first token of line n.
Lbl(text, n) == [text |-> text, n |-> n]

\* The labels in lexicographic order (str comparison).
SortedTexts ==
    << "", "Describe", "Echo", "Exec bash", "Exec sh", "Get nodes", "Get what",
       "Helm", "Info", "Kubeconfigs", "Logs (-f)", "Logs (tail 100)", "My pods",
       "Pods (all)", "Pods (choose)", "Pods -A", "Show", "Show what",
       "name", "stem" >>

LabelRank(label) == CHOOSE r \in 1..Len(SortedTexts) : SortedTexts[r] = label.text

\* An action template ({"label": ..., "cmd": ...}): ok says whether every
\* placeholder of cmd is a variable the expansion defines; head what the
\* text of cmd begins with ("kubectl", "KUBECTL", "" as for a command), kc
\* the --kubeconfig flags the author wrote, env whether the text refers to
\* the picker's environment variable; list_cmd whether the template has a
\* "list_cmd" key.  A template without "cmd" has the verb "".
Tmpl(ia, verb, ok) ==
    [ia |-> ia, verb |-> verb, ok |-> ok, label |-> Lbl("", 0),
     head |-> "", kc |-> <<>>, env |-> FALSE, list_cmd |-> FALSE]

Labelled(x, text) == [x EXCEPT !.label = Lbl(text, 0)]

\* A menu item: the fields the dispatch looks at.  items is the child node
\* when the item has an "items" list, picker whether it has a "picker"
\* mapping, list_cmd / cmd the strings (NoCmd when absent), actions the
\* action templates, order the sort key (NoOrder when absent), glob the
\* picker's own "glob" ("" when it declares none).
Item(items, picker, list_cmd, cmd) ==
    [items |-> items, picker |-> picker, list_cmd |-> list_cmd, cmd |-> cmd,
     actions |-> <<>>, label |-> Lbl("", 0), order |-> NoOrder, glob |-> ""]
WithActions(item, acts) == [item EXCEPT !.actions = acts]
NoItem == Item(NoNode, FALSE, NoCmd, NoCmd)

\* _tabs_from_configs: every tab's root holds one "Kubeconfigs" picker,
\* with no action templates.
RootItems == <<Labelled(Item(NoNode, TRUE, NoCmd, NoCmd), "Kubeconfigs")>>

\* --------------------------------------------------------- loading
\* A configuration document next to app.py (configs.json, config.json):
\* the file is missing, is not JSON ("unparsable"), holds a value that is
\* not an object and is falsy (null, 0, "", []: "falsy") or truthy and no
\* list of pairs ([1], 5, "abc", true: "truthy"), or holds an object
\* whose keys, in order, are keys, each with a mapping as its value.
Keys == {<<>>, <<"a">>, <<"b">>, <<"a", "b">>, <<"b", "a">>}
Docs ==
    [kind : {"missing", "unparsable", "falsy", "truthy"}, keys : {<<>>}]
        \cup [kind : {"object"}, keys : Keys]

\* A result of the loading: ok is FALSE when an exception left the
\* module's import, and then nothing was loaded.
Loaded(what) == [ok |-> TRUE, what |-> what]
Aborted == [ok |-> FALSE, what |-> <<>>]

\* _read_json_file: the value of the document; {} when the file is missing
\* or cannot be parsed
read_json_file(doc) ==
    IF doc.kind \in {"missing", "unparsable"} THEN [kind |-> "object", keys |-> <<>>]
    ELSE doc

\* dict.update of the keys of data with those of d: a key data has keeps
\* its place, the others follow in d's order
RECURSIVE Update(_, _)
Update(data, d) ==
    IF d = <<>> THEN data
    ELSE IF \E k \in 1..Len(data) : data[k] = Head(d) THEN Update(data, Tail(d))
    ELSE Update(Append(data, Head(d)), Tail(d))

\* _load_app_configs_json: the sections of configs.json and config.json;
\* data.update(d) raises on a truthy d that is no mapping
load_app_configs_json(docs) ==
    LET d1 == read_json_file(docs[1])
        d2 == read_json_file(docs[2])
    IN  IF d1.kind = "truthy" \/ d2.kind = "truthy" THEN Aborted
        ELSE Loaded(Update(d1.keys, d2.keys))

\* A tab: its title and the one item of its root ("picker": the
\* Kubeconfigs picker; "info": an Info entry with an echo).
Tab(title, entry) == [title |-> title, entry |-> entry]

\* _tabs_from_configs: one tab per section
tabs_from_configs(configs) ==
    [k \in 1..Len(configs) |-> Tab(configs[k], "picker")]

\* load_tabs
load_tabs(docs) ==
    LET configs == load_app_configs_json(docs)
    IN  IF ~configs.ok THEN Aborted
        ELSE IF tabs_from_configs(configs.what) # <<>>
        THEN Loaded(tabs_from_configs(configs.what))
        ELSE Loaded(<<Tab("No config found", "info")>>)

\* Root menus a MenuPane can be given beside the app's own: pickers with
\* action templates; dynamic lists with and without templates and with an
\* empty list_cmd, a command that fails, an entry without command.
PickerMenu ==
    << WithActions(Item(NoNode, TRUE, NoCmd, NoCmd),
                   <<Labelled(Tmpl(FALSE, "get nodes", TRUE), "Get nodes")>>),
       WithActions(Item(NoNode, TRUE, NoCmd, NoCmd),
                   <<Labelled(Tmpl(FALSE, "get nodes", TRUE), "Get nodes"),
                     Labelled(Tmpl(FALSE, "get {WHAT}", FALSE), "Get what")>>) >>

ListMenu ==
    << WithActions(Item(NoNode, FALSE, Cmd(FALSE, "list", 0, 0), NoCmd),
                   <<Labelled(Tmpl(FALSE, "show", TRUE), "Show"),
                     Labelled(Tmpl(FALSE, "show {WHAT}", FALSE), "Show what")>>),
       Item(NoNode, FALSE, Cmd(FALSE, "list", 0, 0), NoCmd),
       Item(NoNode, FALSE, EmptyCmd, NoCmd),
       Item(NoNode, FALSE, NoCmd, Cmd(FALSE, "false", 0, 0)),
       Item(NoNode, FALSE, NoCmd, NoCmd) >>

\* The child of an item that has an "items" list of its own.
SubNode == Node("sub", 0, 1, 0)

SubItems == <<Item(NoNode, FALSE, NoCmd, Cmd(FALSE, "echo sub", 0, 0))>>

\* A root menu whose items carry several of the keys at once.
MixedMenu ==
    << Item(SubNode, TRUE, Cmd(FALSE, "list", 1, 0), Cmd(FALSE, "true", 1, 0)),
       Item(NoNode, TRUE, Cmd(FALSE, "list", 2, 0), Cmd(FALSE, "true", 2, 0)),
       Item(NoNode, FALSE, Cmd(FALSE, "list", 3, 0), Cmd(FALSE, "true", 3, 0)),
       Item(NoNode, FALSE, NoCmd, Cmd(FALSE, "true", 4, 0)),
       Item(NoNode, FALSE, NoCmd, NoCmd) >>

\* A root menu of pickers whose action templates begin with kubectl, with
\* and without a --kubeconfig flag of the author's, refer to the picker's
\* environment variable or not, or are a dynamic list of their own; one
\* picker declares a glob.
TemplateMenu ==
    << WithActions(Item(NoNode, TRUE, NoCmd, NoCmd),
         << [Labelled(Tmpl(FALSE, "get nodes", TRUE), "Get nodes") EXCEPT !.head = "kubectl"],
            [Labelled(Tmpl(FALSE, "helm list", TRUE), "Helm") EXCEPT !.env = TRUE] >>),
       WithActions([Item(NoNode, TRUE, NoCmd, NoCmd) EXCEPT !.glob = "node/*.yaml"],
         << [Labelled(Tmpl(FALSE, "get pods -A", TRUE), "Pods -A")
                EXCEPT !.head = "kubectl", !.kc = <<0>>],
            [Labelled(Tmpl(FALSE, "get nodes", TRUE), "Get nodes")
                EXCEPT !.head = "KUBECTL", !.kc = <<0>>] >>),
       WithActions(Item(NoNode, TRUE, NoCmd, NoCmd),
         << [Labelled(Tmpl(FALSE, "", TRUE), "My pods") EXCEPT !.list_cmd = TRUE] >>) >>

\* load_tabs, nothing loaded: the root of the "No config found" tab.
NoConfigMenu ==
    <<Labelled(Item(NoNode, FALSE, NoCmd, Cmd(FALSE, "echo add config", 0, 0)), "Info")>>

Menus == <<PickerMenu, ListMenu, MixedMenu, TemplateMenu, NoConfigMenu>>

\* The action templates of the "Pods (choose)" dynamic list of file f.
PodTemplates(f) ==
    LET T(ia, verb, label) ==
            [Labelled(Tmpl(ia, verb, TRUE), label) EXCEPT !.head = "KUBECTL", !.kc = <<f>>]
    IN  << T(FALSE, "describe pod", "Describe"), T(FALSE, "logs -f", "Logs (-f)"),
           T(FALSE, "logs --tail=100", "Logs (tail 100)"),
           T(TRUE, "exec bash", "Exec bash"), T(TRUE, "exec sh", "Exec sh") >>

\* A command item {"label": ..., "cmd": ...}
Action(text, cmd) == Labelled(Item(NoNode, FALSE, NoCmd, cmd), text)

\* A plausible slip: the template is formatted outside the try.
Render_raising(tmpl, f, e) ==
    IF tmpl.ok
    THEN [Cmd(tmpl.ia, tmpl.verb, f, e) EXCEPT !.bin = tmpl.head, !.kc = tmpl.kc]
    ELSE NoCmd

\* dynamic_from_lines, one action template rendered for one line: a
\* template that cannot be formatted gives the echo of the error.
Render(tmpl, f, e) ==
    IF tmpl.ok
    THEN [Cmd(tmpl.ia, tmpl.verb, f, e) EXCEPT !.bin = tmpl.head, !.kc = tmpl.kc]
    ELSE Cmd(FALSE, "echo Template error", 0, 0)

\* _expand_picker_node, one action template rendered for file f: a
\* command that begins with bare kubectl gets the configured binary and
\* the file's --kubeconfig flag before the rest; one that begins with the
\* configured binary gets the flag unless its text holds "--kubeconfig";
\* any other is left as it is; an empty one becomes an echo.
FileCmd(tmpl, f) ==
    IF tmpl.verb = "" THEN Cmd(FALSE, "echo Selected", f, 0)
    ELSE IF ~tmpl.ia /\ tmpl.head = "kubectl"
    THEN Kubectl(Cmd(FALSE, tmpl.verb, f, 0), <<f>> \o tmpl.kc)
    ELSE IF ~tmpl.ia /\ tmpl.head = "KUBECTL" /\ tmpl.kc = <<>>
    THEN Kubectl(Cmd(FALSE, tmpl.verb, f, 0), <<f>>)
    ELSE [Cmd(tmpl.ia, tmpl.verb, f, 0) EXCEPT !.bin = tmpl.head, !.kc = tmpl.kc]

\* _expand_picker_node, the "Pods (choose)" dynamic list of file f
PodsChoose(f) ==
    Labelled(WithActions(Item(NoNode, FALSE, Kubectl(Cmd(FALSE, "list pods", f, 0), <<f>>), NoCmd),
                         PodTemplates(f)),
             "Pods (choose)")

\* _expand_picker_node, per file: the action templates rendered (label
\* and command only), or "Pods (all)" when there is none, and the "Pods
\* (choose)" dynamic list unless an item has a list_cmd.
FileItems(f, acts) ==
    LET per_file_items ==
            IF acts = <<>>
            THEN <<Action("Pods (all)", Kubectl(Cmd(FALSE, "get pods", f, 0), <<f>>))>>
            ELSE [a \in 1..Len(acts) |-> Action(acts[a].label.text, FileCmd(acts[a], f))]
        has_dynamic ==
            \E a \in 1..Len(per_file_items) : per_file_items[a].list_cmd # NoCmd
    IN  IF has_dynamic THEN per_file_items ELSE per_file_items \o <<PodsChoose(f)>>

\* dynamic_from_lines, per entry: the action templates rendered with the
\* line's name, or the echo of the line when there is none.
EntryItems(f, line, acts) ==
    IF acts = <<>>
    THEN <<Action("Echo", Cmd(FALSE, "echo line", f, line))>>
    ELSE [a \in 1..Len(acts) |-> Action(acts[a].label.text, Render(acts[a], f, Name(line)))]

\* A plausible slip: no files, no items.
NoFilesItems_empty == <<>>

\* _expand_picker_node, no file found: one Info entry.
NoFilesItems == <<Action("Info", Cmd(FALSE, "echo no files", 0, 0))>>

\* node.get("items", [])
NodeItems(node) ==
    CASE node.kind = "root" -> IF node.n = 0 THEN RootItems ELSE Menus[node.n]
      [] node.kind = "sub" -> SubItems
      [] node.kind = "noglob" ->
            <<Action("Info", Cmd(FALSE, "echo provide kubeconfigs", 0, 0))>>
      [] node.kind = "picked" ->
            IF node.n = 0
            THEN NoFilesItems
            ELSE [f \in 1..node.n |->
                    [Item(WithActs(Node("file", node.uid, f, 0), node.acts),
                          FALSE, NoCmd, NoCmd) EXCEPT !.label = Lbl("stem", f)]]
      [] node.kind = "file" -> FileItems(node.idx, node.acts)
      [] node.kind = "dyn" ->
            [e \in 1..Len(node.lines) |->
                [Item(WithActs(Node("entry", node.uid, node.lines[e], node.idx), node.acts),
                      FALSE, NoCmd, NoCmd) EXCEPT !.label = Lbl("name", Name(node.lines[e]))]]
      [] node.kind = "entry" -> EntryItems(node.n, node.idx, node.acts)
      [] OTHER -> <<>>

\* A plausible slip: the command is looked at first.
ItemKind_cmd_first(item) ==
    IF item.cmd # NoCmd THEN "action"
    ELSE IF item.items # NoNode THEN "submenu"
    ELSE IF item.picker THEN "picker"
    ELSE IF item.list_cmd # NoCmd THEN "dynamic"
    ELSE "info"

\* _render_items: which button an item gets, first match wins.
ItemKind(item) ==
    IF item.items # NoNode THEN "submenu"
    ELSE IF item.picker THEN "picker"
    ELSE IF item.list_cmd # NoCmd THEN "dynamic"
    ELSE IF item.cmd # NoCmd THEN "action"
    ELSE "info"

\* ------------------------------------------------------------- state
VARIABLES
    stack,          \* MenuPane.stack, per tab
    nextUid,        \* expansions made so far
    history,        \* OpsDesk._history
    hist_idx,       \* OpsDesk._hist_idx (NoIdx = None)
    cmd_input,      \* the text of the command input
    current_proc,   \* OpsDesk._current_proc: the worker whose process it is
    was_killed,     \* OpsDesk._was_killed
    out,            \* the Log widget: the lines written, in order
    workers,        \* the workers started so far, in order
    procs,          \* the child process of each worker
    exited,         \* App.exit() was called
    pushed,         \* every command handed to _history_push, in order
    boot            \* the import of the module: the documents, what they gave

vars == <<stack, nextUid, history, hist_idx, cmd_input, current_proc,
          was_killed, out, workers, procs, exited, pushed, boot>>

\* A line of the log.  k is the kind of text, cmd and n what the text
\* holds; job is the worker whose output or status the line is (0: none).
Line(k, cmd, job, n) == [k |-> k, cmd |-> cmd, job |-> job, n |-> n]

\* on_mount: the three lines the app writes when it starts.
MountLines ==
    << Line("shell", EmptyCmd, 0, 0), Line("config", EmptyCmd, 0, 0),
       Line("kubectl", EmptyCmd, 0, 0) >>

\* The import of the module as the other specifications find it: one
\* section per tab in configs.json, no config.json.
DefaultDocs ==
    << [kind |-> "object", keys |-> SubSeq(<<"a", "b", "c", "d">>, 1, NumTabs)],
       [kind |-> "missing", keys |-> <<>>] >>

Imported == [docs |-> DefaultDocs, st |-> "loaded", tabs |-> load_tabs(DefaultDocs).what]

\* Before the import: the documents are what they are, nothing is
\* loaded, no pane is mounted.
InitLoad ==
    /\ \E docs \in Docs \X Docs : boot = [docs |-> docs, st |-> "start", tabs |-> <<>>]
    /\ stack = <<>>
    /\ nextUid = 0
    /\ history = <<>>
    /\ hist_idx = NoIdx
    /\ cmd_input = EmptyCmd
    /\ current_proc = NoProc
    /\ was_killed = FALSE
    /\ out = <<>>
    /\ workers = <<>>
    /\ procs = <<>>
    /\ exited = FALSE
    /\ pushed = <<>>

\* The import of app.py and the mount of the app: CONFIGS_JSON_APP is
\* loaded at module level, where an exception ends the program; on_mount
\* gives every tab of load_tabs its pane.
import_app ==
    /\ boot.st = "start"
    /\ LET loaded == load_tabs(boot.docs)
       IN  IF loaded.ok
           THEN /\ boot' = [boot EXCEPT !.st = "loaded", !.tabs = loaded.what]
                /\ stack' = [t \in 1..Len(loaded.what) |->
                                <<Node("root", 0, t,
                                       IF loaded.what[t].entry = "info" THEN 5 ELSE 0)>>]
                /\ out' = MountLines
           ELSE /\ boot' = [boot EXCEPT !.st = "aborted"]
                /\ UNCHANGED <<stack, out>>
    /\ UNCHANGED <<nextUid, history, hist_idx, cmd_input, current_proc,
                   was_killed, workers, procs, exited, pushed>>

Init ==
    /\ stack = [t \in Tabs |-> <<Root(t)>>]
    /\ nextUid = 0
    /\ history = <<>>
    /\ hist_idx = NoIdx
    /\ cmd_input = EmptyCmd
    /\ current_proc = NoProc
    /\ was_killed = FALSE
    /\ out = MountLines
    /\ workers = <<>>
    /\ procs = <<>>
    /\ exited = FALSE
    /\ pushed = <<>>
    /\ boot = Imported

\* ------------------------------------------------------------ helpers
\* How many lines of the log have a kind in ks.
RECURSIVE CountKinds(_, _)
CountKinds(log, ks) ==
    IF log = <<>> THEN 0
    ELSE (IF Head(log).k \in ks THEN 1 ELSE 0) + CountKinds(Tail(log), ks)

Active == {"start", "read", "wait"}

\* A worker: kind "run" (run_command's runner) or "dyn" (the dynamic-list
\* worker); cmd is the command it runs, tab the pane a dynamic worker pushes
\* to; pc is where the coroutine is suspended; rd counts the lines read
\* from the pipe and buf is its local list (batch, or lines).
Worker(kind, cmd, tab) ==
    [kind |-> kind, cmd |-> cmd, tab |-> tab, pc |-> "start", rd |-> 0, buf |-> <<>>,
     item |-> NoItem]

\* A child process: st is none / alive / exited (a zombie: stdout closed,
\* not yet reaped) / reaped (asyncio knows the return code); wrote counts
\* the lines it wrote; sig says a SIGINT reached it while it was alive,
\* sent that a SIGINT was sent to its process group, alive or not.
NoProcess ==
    [st |-> "none", rc |-> 0, wrote |-> 0, sig |-> FALSE, sent |-> FALSE,
     blanks |-> {}, cols |-> {}]

\* The text of the n-th line process j wrote.
LineAt(j, n) ==
    IF n \in procs[j].blanks THEN 0
    ELSE IF n \in procs[j].cols THEN n + 2 * Wide
    ELSE n

\* WorkerManager.cancel_group, called by run_worker(exclusive=True): every
\* worker still running is cancelled where it is suspended.
CancelGroup(ws) ==
    [j \in DOMAIN ws |->
        IF ws[j].pc \in Active THEN [ws[j] EXCEPT !.pc = "cancelled"] ELSE ws[j]]

\* App.run_worker(work, exclusive=True, thread=False)
run_worker(w) ==
    /\ workers' = Append(CancelGroup(workers), w)
    /\ procs' = Append(procs, NoProcess)

\* A plausible slip: a command already anywhere in the history is skipped.
history_push_global_dedup(cmd) ==
    /\ pushed' = Append(pushed, cmd)
    /\ IF cmd = EmptyCmd \/ \E i \in 1..Len(history) : history[i] = cmd
       THEN UNCHANGED <<history, hist_idx>>
       ELSE /\ history' = Append(history, cmd)
            /\ hist_idx' = NoIdx

\* A plausible slip: the history is kept newest first, as it is shown.
history_push_newest_first(cmd) ==
    /\ pushed' = Append(pushed, cmd)
    /\ IF cmd = EmptyCmd \/ (history # <<>> /\ history[1] = cmd)
       THEN UNCHANGED <<history, hist_idx>>
       ELSE /\ history' = <<cmd>> \o history
            /\ hist_idx' = NoIdx

\* OpsDesk._history_push
history_push(cmd) ==
    /\ pushed' = Append(pushed, cmd)
    /\ IF cmd = EmptyCmd
       THEN UNCHANGED <<history, hist_idx>>
       ELSE IF history # <<>> /\ history[Len(history)] = cmd
            THEN UNCHANGED <<history, hist_idx>>
            ELSE /\ history' = Append(history, cmd)
                 /\ hist_idx' = NoIdx

\* OpsDesk.run_interactive: the event loop is suspended while the child
\* has the terminal, so the whole call is one step.
run_interactive(cmd) ==
    /\ \E res \in {Line("returned", cmd, 0, rc) : rc \in ExitCodes}
                   \cup {Line("ierror", EmptyCmd, 0, 0)} :
          out' = out \o <<Line("blank", EmptyCmd, 0, 0), Line("echo", cmd, 0, 0), res>>

\* A plausible slip: the command is tracked in the history before the
\* interactive prefix is looked at.
run_command_pushing_first(cmd) ==
    IF cmd.ia
    THEN /\ history_push(cmd)
         /\ run_interactive(StripInteractive(cmd))
         /\ UNCHANGED <<workers, procs>>
    ELSE /\ history_push(cmd)
         /\ out' = out \o << Line("blank", EmptyCmd, 0, 0),
                             Line("echo", cmd, Len(workers) + 1, 0) >>
         /\ run_worker(Worker("run", cmd, 0))

\* OpsDesk.run_command
run_command(cmd) ==
    IF cmd.ia
    THEN /\ run_interactive(StripInteractive(cmd))
         /\ UNCHANGED <<history, hist_idx, pushed, workers, procs>>
    ELSE /\ history_push(cmd)
         /\ out' = out \o << Line("blank", EmptyCmd, 0, 0),
                             Line("echo", cmd, Len(workers) + 1, 0) >>
         /\ run_worker(Worker("run", cmd, 0))

\* ----------------------------------------------------- user: commands
\* OpsDesk.on_input_submitted, with a non-empty stripped value
on_input_submitted(c) ==
    /\ ~exited
    /\ cmd_input' = EmptyCmd
    /\ run_command(c)
    /\ UNCHANGED <<stack, nextUid, current_proc, was_killed, exited, boot>>

\* A plausible slip: the rows are shown newest first, and the row's place
\* is taken for the entry's.
HistoryRerun_by_row(i) ==
    /\ ~exited
    /\ i \in 1..Len(history)
    /\ cmd_input' = history[Len(history) + 1 - i]
    /\ run_command(history[Len(history) + 1 - i])
    /\ UNCHANGED <<stack, nextUid, current_proc, was_killed, exited, boot>>

\* OpsDesk.on_button_pressed, a history row's re-run button
HistoryRerun(i) ==
    /\ ~exited
    /\ i \in 1..Len(history)
    /\ cmd_input' = history[i]
    /\ run_command(history[i])
    /\ UNCHANGED <<stack, nextUid, current_proc, was_killed, exited, boot>>

\* A plausible slip: from the oldest entry the cursor wraps to the newest.
recall_prev_wrapping(idx, n) ==
    IF idx = NoIdx THEN n - 1 ELSE IF idx > 0 THEN idx - 1 ELSE n - 1

\* action_history_prev's new cursor, from the cursor idx and n entries
recall_prev(idx, n) ==
    IF idx = NoIdx THEN n - 1 ELSE IF idx - 1 > 0 THEN idx - 1 ELSE 0

\* A plausible slip: on an empty history the handler empties the input
\* instead of returning.
action_history_prev_clearing ==
    /\ ~exited
    /\ IF history = <<>>
       THEN cmd_input' = EmptyCmd /\ UNCHANGED hist_idx
       ELSE /\ hist_idx' = recall_prev(hist_idx, Len(history))
            /\ cmd_input' = history[hist_idx' + 1]
    /\ UNCHANGED <<stack, nextUid, history, current_proc, was_killed, out,
                   workers, procs, exited, pushed, boot>>

\* OpsDesk.action_history_prev
action_history_prev ==
    /\ ~exited
    /\ history # <<>>
    /\ hist_idx' = recall_prev(hist_idx, Len(history))
    /\ cmd_input' = history[hist_idx' + 1]
    /\ UNCHANGED <<stack, nextUid, history, current_proc, was_killed, out,
                   workers, procs, exited, pushed, boot>>

\* A plausible slip: from the newest entry the cursor wraps to the oldest.
recall_next_wrapping(idx, n) ==
    IF idx = NoIdx THEN NoIdx ELSE IF idx < n - 1 THEN idx + 1 ELSE 0

\* action_history_next's new cursor, from the cursor idx and n entries
recall_next(idx, n) ==
    IF idx = NoIdx THEN NoIdx ELSE IF idx < n - 1 THEN idx + 1 ELSE NoIdx

\* OpsDesk.action_history_next
action_history_next ==
    /\ ~exited
    /\ history # <<>>
    /\ hist_idx' = recall_next(hist_idx, Len(history))
    /\ cmd_input' = IF hist_idx = NoIdx THEN cmd_input
                    ELSE IF hist_idx' = NoIdx THEN EmptyCmd
                    ELSE history[hist_idx' + 1]
    /\ UNCHANGED <<stack, nextUid, history, current_proc, was_killed, out,
                   workers, procs, exited, pushed, boot>>

\* ------------------------------------------------------- user: copy
\* OpsDesk._copy_to_clipboard: the text goes to pbcopy, xclip or wl-copy
\* when one of them is installed; one line says how it went.
copy_to_clipboard(text) ==
    \E k \in {"copied", "copy unsupported", "copy failed"} :
        out' = Append(out, Line(k, EmptyCmd, 0, 0))

\* A plausible slip: the copy button of a row runs the row's command too.
HistoryCopy_running(i) ==
    /\ ~exited
    /\ i \in 1..Len(history)
    /\ cmd_input' = history[i]
    /\ run_command(history[i])
    /\ UNCHANGED <<stack, nextUid, current_proc, was_killed, exited, boot>>

\* OpsDesk.on_button_pressed, a history row's copy button
HistoryCopy(i) ==
    /\ ~exited
    /\ i \in 1..Len(history)
    /\ copy_to_clipboard(history[i])
    /\ UNCHANGED <<stack, nextUid, history, hist_idx, cmd_input, current_proc,
                   was_killed, workers, procs, exited, pushed, boot>>

\* OpsDesk.on_button_pressed, the "copy-input" button
CopyInput ==
    /\ ~exited
    /\ copy_to_clipboard(cmd_input)
    /\ UNCHANGED <<stack, nextUid, history, hist_idx, cmd_input, current_proc,
                   was_killed, workers, procs, exited, pushed, boot>>

\* ------------------------------------------------------- user: kill
\* A plausible slip: the kill flag is raised before the slot is looked at.
nothing_to_kill_raising_flag ==
    /\ out' = Append(out, Line("nokill", EmptyCmd, 0, 0))
    /\ was_killed' = TRUE
    /\ UNCHANGED procs

\* OpsDesk.kill_running_command, the early return when the slot is empty
nothing_to_kill ==
    /\ out' = Append(out, Line("nokill", EmptyCmd, 0, 0))
    /\ UNCHANGED <<procs, was_killed>>

\* OpsDesk.kill_running_command.  os.killpg succeeds while the process
\* group exists (the child alive, or exited and not yet reaped) and raises
\* ProcessLookupError once it is reaped; when killpg fails otherwise and
\* send_signal succeeds the effect is the one of the first branch, and
\* when both fail nothing changes.
kill_running_command ==
    /\ ~exited
    /\ IF current_proc = NoProc
       THEN nothing_to_kill
       ELSE IF procs[current_proc].st \in {"alive", "exited"}
            THEN /\ procs' = [procs EXCEPT ![current_proc].sig =
                                 @ \/ procs[current_proc].st = "alive",
                                            ![current_proc].sent = TRUE]
                 /\ was_killed' = TRUE
                 /\ out' = Append(out, Line("sigint", EmptyCmd, 0, 0))
            ELSE /\ out' = Append(out, Line("finished", EmptyCmd, 0, 0))
                 /\ UNCHANGED <<procs, was_killed>>
    /\ UNCHANGED <<stack, nextUid, history, hist_idx, cmd_input, current_proc,
                   workers, exited, pushed, boot>>

\* OpsDesk.action_quit
action_quit ==
    /\ ~exited
    /\ IF current_proc # NoProc
       THEN /\ procs' = [procs EXCEPT ![current_proc].sig =
                            @ \/ procs[current_proc].st = "alive",
                                       ![current_proc].sent =
                            @ \/ procs[current_proc].st \in {"alive", "exited"}]
            /\ was_killed' = TRUE
            /\ out' = Append(out, Line("cleanup", EmptyCmd, 0, 0))
       ELSE UNCHANGED <<procs, was_killed, out>>
    /\ exited' = TRUE
    /\ UNCHANGED <<stack, nextUid, history, hist_idx, cmd_input, current_proc,
                   workers, pushed, boot>>

\* ------------------------------------------------- user: navigation
Top(t) == stack[t][Len(stack[t])]

\* MenuPane._current_items
current_items(t) == NodeItems(Top(t))

\* A plausible slip: the stack is replaced by the new node.
push_replacing(t, node) == stack' = [stack EXCEPT ![t] = <<node>>]

\* self.stack.append(node)
push(t, node) == stack' = [stack EXCEPT ![t] = Append(@, node)]

\* Plausible slips: the first node is popped (pop(0)); two nodes are popped.
Pop_front(s) == IF Len(s) > 1 THEN Tail(s) ELSE s

Pop_twice(s) == IF Len(s) > 2 THEN SubSeq(s, 1, Len(s) - 2) ELSE <<s[1]>>

\* go_back's effect on the stack: self.stack.pop() when it is deeper than 1
Pop(s) == IF Len(s) > 1 THEN SubSeq(s, 1, Len(s) - 1) ELSE s

\* MenuPane.go_back (the Back button, or the 'b' key on the visible pane)
go_back(t) ==
    /\ ~exited
    /\ stack' = [stack EXCEPT ![t] = Pop(@)]
    /\ UNCHANGED <<nextUid, history, hist_idx, cmd_input, current_proc,
                   was_killed, out, workers, procs, exited, pushed, boot>>

\* MenuPane.on_button_pressed, a "-submenu-" button
SubmenuPressed(t, i) ==
    /\ ~exited
    /\ i \in 1..Len(current_items(t))
    /\ ItemKind(current_items(t)[i]) = "submenu"
    /\ push(t, current_items(t)[i].items)
    /\ UNCHANGED <<nextUid, history, hist_idx, cmd_input, current_proc,
                   was_killed, out, workers, procs, exited, pushed, boot>>

\* What the configuration files say to a picker of a tab: glob is
\* CONFIG's kubeconfig_glob; section whether CONFIGS_JSON_APP has a
\* mapping under the tab's title or slug; files whether the file list that
\* applies is a non-empty list (the section's, or the top-level one when
\* there is no section); dir and sglob the section's kubeconfig_dir and
\* kubeconfig_glob ("" when absent).
Configs ==
    [glob : {"", "global/*.yaml"}, section : BOOLEAN, files : BOOLEAN,
     dir : {"", "dir"}, sglob : {"", "section/*.yaml"}]

\* MenuPane._expand_picker_node, up to the paths: where the paths come
\* from.  by is "files" for a configured file list, "glob" for the pattern
\* pat, "none" when there is neither.
PathSource(item, cfg) ==
    LET glob_pat == IF item.glob # "" THEN item.glob ELSE cfg.glob
        kube_glob == IF cfg.dir # "" /\ cfg.sglob = ""
                     THEN cfg.dir \o "/*.yaml" ELSE cfg.sglob
        use_glob == IF kube_glob # "" THEN kube_glob ELSE glob_pat
    IN  IF cfg.section
        THEN IF cfg.files THEN [by |-> "files", pat |-> ""]
             ELSE IF use_glob = "" THEN [by |-> "none", pat |-> ""]
             ELSE [by |-> "glob", pat |-> use_glob]
        ELSE IF cfg.files THEN [by |-> "files", pat |-> ""]
             ELSE IF glob_pat = "" THEN [by |-> "none", pat |-> ""]
             ELSE [by |-> "glob", pat |-> glob_pat]

\* MenuPane._expand_picker_node: nf is the number of files found, NoGlob
\* when the picker has neither files nor a glob.  With files found, every
\* action template is formatted for every file, outside any try: a
\* template with an undefined placeholder raises.
expand_picker_node(item, uid, nf) ==
    IF nf = NoGlob THEN Node("noglob", uid, 0, 0)
    ELSE IF nf = 0 THEN Node("picked", uid, 0, 0)
    ELSE IF \E a \in 1..Len(item.actions) : ~item.actions[a].ok THEN Raised
    ELSE WithActs(Node("picked", uid, 0, nf), item.actions)

\* MenuPane.on_button_pressed, a "-picker-" button; the configuration
\* names nf files, or nothing to look for when nf is NoGlob
PickerPressed(t, i, nf) ==
    /\ ~exited
    /\ i \in 1..Len(current_items(t))
    /\ ItemKind(current_items(t)[i]) = "picker"
    /\ {cfg \in Configs :
           (nf = NoGlob) <=> (PathSource(current_items(t)[i], cfg).by = "none")} # {}
    /\ LET expanded == expand_picker_node(current_items(t)[i], nextUid + 1, nf)
       IN  IF expanded = Raised
           THEN UNCHANGED <<stack, nextUid>>
           ELSE push(t, expanded) /\ nextUid' = nextUid + 1
    /\ UNCHANGED <<history, hist_idx, cmd_input, current_proc,
                   was_killed, out, workers, procs, exited, pushed, boot>>

\* MenuPane.on_button_pressed, a "-dynamic-" button: the list_cmd is
\* echoed and the worker is started; the capture runs in the worker.
DynamicPressed(t, i) ==
    /\ ~exited
    /\ i \in 1..Len(current_items(t))
    /\ ItemKind(current_items(t)[i]) = "dynamic"
    /\ LET item == current_items(t)[i]
       IN  IF item.list_cmd = EmptyCmd
           THEN /\ out' = Append(out, Line("missing list_cmd", EmptyCmd, 0, 0))
                /\ UNCHANGED <<workers, procs>>
           ELSE /\ out' = Append(out, Line("echo", item.list_cmd, Len(workers) + 1, 0))
                /\ run_worker([Worker("dyn", item.list_cmd, t) EXCEPT !.item = item])
    /\ UNCHANGED <<stack, nextUid, history, hist_idx, cmd_input, current_proc,
                   was_killed, exited, pushed, boot>>

\* _render_items and on_button_pressed, the command an action or info
\* button runs: its tooltip, or the fallback echo when that is empty.
ButtonCmd(item) ==
    IF ItemKind(item) = "info" THEN Cmd(FALSE, "echo No action for", 0, 0)
    ELSE IF item.cmd = EmptyCmd THEN Cmd(FALSE, "echo No action bound", 0, 0)
    ELSE item.cmd

\* MenuPane.on_button_pressed, an action or info button: the command is
\* the button's tooltip.
ActionPressed(t, i) ==
    /\ ~exited
    /\ i \in 1..Len(current_items(t))
    /\ ItemKind(current_items(t)[i]) \in {"action", "info"}
    /\ run_command(ButtonCmd(current_items(t)[i]))
    /\ UNCHANGED <<stack, nextUid, cmd_input, current_proc, was_killed, exited, boot>>

\* ------------------------------------------------------ the runner
\* A plausible slip: a batch is written last line first.
log_lines_reversed(log, j, lines) ==
    log \o [i \in 1..Len(lines) |-> Line("out", EmptyCmd, j, lines[Len(lines) + 1 - i])]

\* OpsDesk._log_lines
log_lines(log, j, lines) ==
    log \o [i \in 1..Len(lines) |-> Line("out", EmptyCmd, j, lines[i])]

\* A plausible slip: the exit code is looked at before the kill flag.
Status_exit_code_first(killed, rc) ==
    IF rc = 0 THEN "done" ELSE IF killed THEN "killed" ELSE "exit"

\* The status of the final line
Status(killed, rc) == IF killed THEN "killed" ELSE IF rc = 0 THEN "done" ELSE "exit"

\* runner, after proc.wait() has returned: the status line, and the slot
\* is cleared.  log is the log with the last batch flushed.
runner_finish(j, log) ==
    /\ out' = Append(log, Line(Status(was_killed, procs[j].rc), workers[j].cmd, j,
                               IF Status(was_killed, procs[j].rc) = "exit"
                               THEN procs[j].rc ELSE 0))
    /\ current_proc' = NoProc
    /\ workers' = [workers EXCEPT ![j].pc = "done"]

\* A plausible slip: the kill flag is not reset when a run starts.
runner_start_keeping_flag(j) ==
    /\ ~exited
    /\ workers[j].kind = "run" /\ workers[j].pc = "start"
    /\ procs' = [procs EXCEPT ![j].st = "alive"]
    /\ current_proc' = j
    /\ workers' = [workers EXCEPT ![j].pc = "read"]
    /\ UNCHANGED <<stack, nextUid, history, hist_idx, cmd_input, out, was_killed,
                   exited, pushed, boot>>

\* runner, from its start to the first readline: create_subprocess_shell
\* returns the process, which is put in the slot, and the kill flag is reset.
runner_start(j) ==
    /\ ~exited
    /\ workers[j].kind = "run" /\ workers[j].pc = "start"
    /\ procs' = [procs EXCEPT ![j].st = "alive"]
    /\ current_proc' = j
    /\ was_killed' = FALSE
    /\ workers' = [workers EXCEPT ![j].pc = "read"]
    /\ UNCHANGED <<stack, nextUid, history, hist_idx, cmd_input, out, exited, pushed, boot>>

\* runner, readline returns a line: it is batched, and the batch is
\* written and cleared when it holds BatchSize lines.
runner_readline(j) ==
    /\ ~exited
    /\ workers[j].kind = "run" /\ workers[j].pc = "read"
    /\ workers[j].rd < procs[j].wrote
    /\ LET batch == Append(workers[j].buf, LineAt(j, workers[j].rd + 1))
       IN  IF Len(batch) >= BatchSize
           THEN /\ out' = log_lines(out, j, batch)
                /\ workers' = [workers EXCEPT ![j].rd = @ + 1, ![j].buf = <<>>]
           ELSE /\ out' = out
                /\ workers' = [workers EXCEPT ![j].rd = @ + 1, ![j].buf = batch]
    /\ UNCHANGED <<stack, nextUid, history, hist_idx, cmd_input, current_proc,
                   was_killed, procs, exited, pushed, boot>>

\* runner, readline returns b"": the rest of the batch is written, then
\* proc.wait(), which returns at once when the process is already reaped.
runner_eof(j) ==
    /\ ~exited
    /\ workers[j].kind = "run" /\ workers[j].pc = "read"
    /\ workers[j].rd = procs[j].wrote
    /\ procs[j].st \in {"exited", "reaped"}
    /\ LET flushed == IF workers[j].buf # <<>>
                      THEN log_lines(out, j, workers[j].buf) ELSE out
       IN  IF procs[j].st = "reaped"
           THEN runner_finish(j, flushed)
           ELSE /\ out' = flushed
                /\ workers' = [workers EXCEPT ![j].pc = "wait"]
                /\ UNCHANGED current_proc
    /\ UNCHANGED <<stack, nextUid, history, hist_idx, cmd_input,
                   was_killed, procs, exited, pushed, boot>>

\* runner, proc.wait() returns
runner_wait(j) ==
    /\ ~exited
    /\ workers[j].kind = "run" /\ workers[j].pc = "wait"
    /\ procs[j].st = "reaped"
    /\ runner_finish(j, out)
    /\ UNCHANGED <<stack, nextUid, history, hist_idx, cmd_input,
                   was_killed, procs, exited, pushed, boot>>

\* ------------------------------------------- the dynamic-list worker
\* the lines dynamic_from_lines keeps: those that are not blank
NonBlank(lines) == SelectSeq(lines, LAMBDA l : l # 0)

\* [l.strip() for l in lines if l.strip()]
Stripped(lines) == [e \in 1..Len(NonBlank(lines)) |-> Strip(NonBlank(lines)[e])]

\* dsl.dynamic_from_lines: one entry per non-blank line, each with the
\* item's action templates rendered for it
dynamic_from_lines(item, lines, uid) ==
    [WithActs(Node("dyn", uid, item.list_cmd.file, Len(NonBlank(lines))), item.actions)
        EXCEPT !.lines = Stripped(lines)]

\* worker, after run_and_capture has returned its lines: the expansion is
\* pushed on the pane's stack as it is now.
worker_finish(j, lines) ==
    /\ push(workers[j].tab, dynamic_from_lines(workers[j].item, lines, nextUid + 1))
    /\ nextUid' = nextUid + 1
    /\ workers' = [workers EXCEPT ![j].pc = "done", ![j].rd = Len(lines), ![j].buf = lines]

\* run_and_capture, at rc = await proc.wait()
capture_wait_or_finish(j, lines) ==
    IF procs[j].st = "reaped"
    THEN worker_finish(j, lines)
    ELSE /\ workers' = [workers EXCEPT ![j].pc = "wait", ![j].rd = Len(lines),
                                        ![j].buf = lines]
         /\ UNCHANGED <<stack, nextUid>>

\* run_and_capture, from its start to the first readline
capture_start(j) ==
    /\ ~exited
    /\ workers[j].kind = "dyn" /\ workers[j].pc = "start"
    /\ procs' = [procs EXCEPT ![j].st = "alive"]
    /\ workers' = [workers EXCEPT ![j].pc = "read"]
    /\ UNCHANGED <<stack, nextUid, history, hist_idx, cmd_input, current_proc,
                   was_killed, out, exited, pushed, boot>>

\* A plausible slip: the line that reaches the cap is kept and reading
\* goes on (the test is made with > instead of >=).
capture_readline_late(j) ==
    /\ ~exited
    /\ workers[j].kind = "dyn" /\ workers[j].pc = "read"
    /\ workers[j].rd < procs[j].wrote
    /\ LET lines == Append(workers[j].buf, LineAt(j, workers[j].rd + 1))
       IN  IF Len(lines) > max_lines
           THEN capture_wait_or_finish(j, lines)
           ELSE /\ workers' = [workers EXCEPT ![j].rd = @ + 1, ![j].buf = lines]
                /\ UNCHANGED <<stack, nextUid>>
    /\ UNCHANGED <<history, hist_idx, cmd_input, current_proc,
                   was_killed, out, procs, exited, pushed, boot>>

\* run_and_capture, readline returns a line: reading stops at max_lines
capture_readline(j) ==
    /\ ~exited
    /\ workers[j].kind = "dyn" /\ workers[j].pc = "read"
    /\ workers[j].rd < procs[j].wrote
    /\ LET lines == Append(workers[j].buf, LineAt(j, workers[j].rd + 1))
       IN  IF Len(lines) >= max_lines
           THEN capture_wait_or_finish(j, lines)
           ELSE /\ workers' = [workers EXCEPT ![j].rd = @ + 1, ![j].buf = lines]
                /\ UNCHANGED <<stack, nextUid>>
    /\ UNCHANGED <<history, hist_idx, cmd_input, current_proc,
                   was_killed, out, procs, exited, pushed, boot>>

\* run_and_capture, readline returns b""
capture_eof(j) ==
    /\ ~exited
    /\ workers[j].kind = "dyn" /\ workers[j].pc = "read"
    /\ workers[j].rd = procs[j].wrote
    /\ procs[j].st \in {"exited", "reaped"}
    /\ capture_wait_or_finish(j, workers[j].buf)
    /\ UNCHANGED <<history, hist_idx, cmd_input, current_proc,
                   was_killed, out, procs, exited, pushed, boot>>

\* run_and_capture, proc.wait() returns
capture_wait(j) ==
    /\ ~exited
    /\ workers[j].kind = "dyn" /\ workers[j].pc = "wait"
    /\ procs[j].st = "reaped"
    /\ worker_finish(j, workers[j].buf)
    /\ UNCHANGED <<history, hist_idx, cmd_input, current_proc,
                   was_killed, out, procs, exited, pushed, boot>>

\* ------------------------------------------------- child processes
\* The pipe between child j and its worker takes a line: the worker holds
\* the read end (it reads, or it has stopped reading and waits for the
\* child), and what is written and not yet read leaves room.  A write to a
\* full pipe blocks the child.
PipeOpen(j) ==
    /\ workers[j].pc \in {"read", "wait"}
    /\ procs[j].wrote - workers[j].rd < PipeCap

\* The child writes a line to its stdout (observable only while a worker
\* reads the pipe).
proc_write(j) ==
    /\ procs[j].st = "alive"
    /\ PipeOpen(j)
    /\ procs' = [procs EXCEPT ![j].wrote = @ + 1]
    /\ UNCHANGED <<stack, nextUid, history, hist_idx, cmd_input, current_proc,
                   was_killed, out, workers, exited, pushed, boot>>

\* The child process writes a blank line to its stdout.
proc_write_blank(j) ==
    /\ procs[j].st = "alive"
    /\ PipeOpen(j)
    /\ procs' = [procs EXCEPT ![j].wrote = @ + 1, ![j].blanks = @ \cup {procs[j].wrote + 1}]
    /\ UNCHANGED <<stack, nextUid, history, hist_idx, cmd_input, current_proc,
                   was_killed, out, workers, exited, pushed, boot>>

\* The child process writes a line of several columns, with whitespace
\* around it.
proc_write_columns(j) ==
    /\ procs[j].st = "alive"
    /\ PipeOpen(j)
    /\ procs' = [procs EXCEPT ![j].wrote = @ + 1, ![j].cols = @ \cup {procs[j].wrote + 1}]
    /\ UNCHANGED <<stack, nextUid, history, hist_idx, cmd_input, current_proc,
                   was_killed, out, workers, exited, pushed, boot>>

\* The child exits with return code rc; its stdout is closed.
proc_exit(j, rc) ==
    /\ procs[j].st = "alive"
    /\ procs' = [procs EXCEPT ![j].st = "exited", ![j].rc = rc]
    /\ UNCHANGED <<stack, nextUid, history, hist_idx, cmd_input, current_proc,
                   was_killed, out, workers, exited, pushed, boot>>

\* asyncio's child watcher reaps the child: its return code is known.
proc_reap(j) ==
    /\ procs[j].st = "exited"
    /\ procs' = [procs EXCEPT ![j].st = "reaped"]
    /\ UNCHANGED <<stack, nextUid, history, hist_idx, cmd_input, current_proc,
                   was_killed, out, workers, exited, pushed, boot>>

\* ------------------------------------------------------------- spec
Jobs == 1..Len(workers)
Buttons == 1..5

\* What the user still does: the guards that keep the state space finite.
MayKill == CountKinds(out, {"sigint", "nokill", "finished"}) < MaxKills
MayInteract == CountKinds(out, {"returned", "ierror"}) < MaxInteractive
MayExpand == nextUid < MaxExpand
SideKinds == {"copied", "copy unsupported", "copy failed", "sigint", "nokill", "finished", "returned", "ierror"}
MaySide == CountKinds(out, SideKinds) < MaxSide

\* The execution engine, with at most MaxJobs workers started: commands typed,
\* re-run and recalled, cancellation and shutdown; the first tab's menu is
\* walked downwards only, to the dynamic list of the one file the picker
\* finds.
ExecCmds == {Cmd(FALSE, "ls", 0, 0)}

Next ==
    \/ \E c \in ExecCmds : Len(workers) < MaxJobs /\ on_input_submitted(c)
    \/ \E i \in 1..Len(history) : Len(workers) < MaxJobs /\ HistoryRerun(i)
    \/ action_history_prev
    \/ action_history_next
    \/ MayKill /\ kill_running_command
    \/ action_quit
    \/ \E i \in Buttons : SubmenuPressed(1, i)
    \/ \E i \in Buttons : MayExpand /\ PickerPressed(1, i, 1)
    \/ \E i \in Buttons : Len(workers) < MaxJobs /\ DynamicPressed(1, i)
    \/ \E j \in Jobs : runner_start(j)
    \/ \E j \in Jobs : runner_readline(j)
    \/ \E j \in Jobs : runner_eof(j)
    \/ \E j \in Jobs : runner_wait(j)
    \/ \E j \in Jobs : capture_start(j)
    \/ \E j \in Jobs : capture_readline(j)
    \/ \E j \in Jobs : capture_eof(j)
    \/ \E j \in Jobs : capture_wait(j)
    \/ \E j \in Jobs : procs[j].wrote < MaxOut /\ proc_write(j)
    \/ \E j \in Jobs, rc \in ExitCodes : proc_exit(j, rc)
    \/ \E j \in Jobs : proc_reap(j)

Spec == Init /\ [][Next]_vars

\* The same with fewer workers; no command is re-run from the history rows.
FewNext ==
    \/ \E c \in ExecCmds : Len(workers) < FewJobs /\ on_input_submitted(c)
    \/ action_history_prev
    \/ action_history_next
    \/ MayKill /\ kill_running_command
    \/ action_quit
    \/ \E i \in Buttons : SubmenuPressed(1, i)
    \/ \E i \in Buttons : MayExpand /\ PickerPressed(1, i, 1)
    \/ \E i \in Buttons : Len(workers) < FewJobs /\ DynamicPressed(1, i)
    \/ \E j \in Jobs : runner_start(j)
    \/ \E j \in Jobs : runner_readline(j)
    \/ \E j \in Jobs : runner_eof(j)
    \/ \E j \in Jobs : runner_wait(j)
    \/ \E j \in Jobs : capture_start(j)
    \/ \E j \in Jobs : capture_readline(j)
    \/ \E j \in Jobs : capture_eof(j)
    \/ \E j \in Jobs : capture_wait(j)
    \/ \E j \in Jobs : procs[j].wrote < MaxOut /\ proc_write(j)
    \/ \E j \in Jobs, rc \in ExitCodes : proc_exit(j, rc)
    \/ \E j \in Jobs : proc_reap(j)

SpecFew == Init /\ [][FewNext]_vars

\* The menus: every tab walked down and back up, the picker finding any
\* number of files, one dynamic list captured while the user walks on.
NavNext ==
    \/ \E t \in Tabs : go_back(t)
    \/ \E t \in Tabs, i \in Buttons : SubmenuPressed(t, i)
    \/ \E t \in Tabs, i \in Buttons, nf \in NoGlob..MaxFiles :
          MayExpand /\ PickerPressed(t, i, nf)
    \/ \E t \in Tabs, i \in Buttons :
          workers = <<>> /\ MayExpand /\ DynamicPressed(t, i)
    \/ \E j \in Jobs : capture_start(j)
    \/ \E j \in Jobs : capture_readline(j)
    \/ \E j \in Jobs : capture_eof(j)
    \/ \E j \in Jobs : capture_wait(j)
    \/ \E j \in Jobs : procs[j].wrote < MaxOut /\ proc_write(j)
    \/ \E j \in Jobs, rc \in ExitCodes : proc_exit(j, rc)
    \/ \E j \in Jobs : proc_reap(j)

SpecNav == Init /\ [][NavNext]_vars

\* The first tab's pane given any of the root menus: the app's own picker,
\* pickers with action templates, dynamic lists, actions; one worker is started, a
\* capture or a run, its process writes blank lines and lines of several columns, exits
\* with any code or is interrupted.
InitMenu ==
    /\ \E m \in 0..2 :
          stack = [t \in Tabs |-> <<Node("root", 0, t, IF t = 1 THEN m ELSE 0)>>]
    /\ nextUid = 0
    /\ history = <<>>
    /\ hist_idx = NoIdx
    /\ cmd_input = EmptyCmd
    /\ current_proc = NoProc
    /\ was_killed = FALSE
    /\ out = MountLines
    /\ workers = <<>>
    /\ procs = <<>>
    /\ exited = FALSE
    /\ pushed = <<>>
    /\ boot = Imported

MayLog == CountKinds(out, {"missing list_cmd"}) < MaxSide

MenuNext ==
    \/ go_back(1)
    \/ \E i \in Buttons : SubmenuPressed(1, i)
    \/ \E i \in Buttons, nf \in NoGlob..MaxFiles :
          MayExpand /\ PickerPressed(1, i, nf)
    \/ \E i \in Buttons :
          workers = <<>> /\ MayExpand /\ MayLog /\ DynamicPressed(1, i)
    \/ \E i \in Buttons : workers = <<>> /\ ActionPressed(1, i)
    \/ MayKill /\ kill_running_command
    \/ \E j \in Jobs : capture_start(j)
    \/ \E j \in Jobs : capture_readline(j)
    \/ \E j \in Jobs : capture_eof(j)
    \/ \E j \in Jobs : capture_wait(j)
    \/ \E j \in Jobs : runner_start(j)
    \/ \E j \in Jobs : runner_readline(j)
    \/ \E j \in Jobs : runner_eof(j)
    \/ \E j \in Jobs : runner_wait(j)
    \/ \E j \in Jobs : procs[j].wrote < MaxLines /\ proc_write_columns(j)
    \/ \E j \in Jobs : procs[j].wrote < MaxLines /\ proc_write_blank(j)
    \/ \E j \in Jobs, rc \in ExitCodes : proc_exit(j, rc)
    \/ \E j \in Jobs : proc_reap(j)

SpecMenu == InitMenu /\ [][MenuNext]_vars

\* The first tab's pane given the menu whose items carry several keys or
\* the menu of pickers with templates: every button is pressed, the
\* workers started are not followed.
InitKinds ==
    /\ \E m \in {3, 4} :
          stack = [t \in Tabs |-> <<Node("root", 0, t, IF t = 1 THEN m ELSE 0)>>]
    /\ nextUid = 0
    /\ history = <<>>
    /\ hist_idx = NoIdx
    /\ cmd_input = EmptyCmd
    /\ current_proc = NoProc
    /\ was_killed = FALSE
    /\ out = MountLines
    /\ workers = <<>>
    /\ procs = <<>>
    /\ exited = FALSE
    /\ pushed = <<>>
    /\ boot = Imported

KindsNext ==
    \/ go_back(1)
    \/ \E i \in Buttons : SubmenuPressed(1, i)
    \/ \E i \in Buttons, nf \in NoGlob..MaxFiles : MayExpand /\ PickerPressed(1, i, nf)
    \/ \E i \in Buttons : Len(workers) < MaxJobs /\ DynamicPressed(1, i)
    \/ \E i \in Buttons : Len(workers) < MaxJobs /\ ActionPressed(1, i)

SpecKinds == InitKinds /\ [][KindsNext]_vars

\* The import alone, over every pair of documents.
LoadNext == import_app

SpecLoad == InitLoad /\ [][LoadNext]_vars

\* The history: commands typed (streamed and interactive), re-run from the
\* history rows, recalled, and run from the menu of a picker that found no
\* file; the workers started are not followed.
MayPush == Len(pushed) < HistPushes

HistNext ==
    \/ \E c \in TypedCmds :
          (IF c.ia THEN MayInteract ELSE MayPush) /\ on_input_submitted(c)
    \/ \E i \in 1..Len(history) : MayPush /\ HistoryRerun(i)
    \/ action_history_prev
    \/ action_history_next
    \/ \E i \in Buttons : nextUid = 0 /\ PickerPressed(1, i, 0)
    \/ \E i \in Buttons : MayPush /\ ActionPressed(1, i)

SpecHist == Init /\ [][HistNext]_vars

\* Every operation on the desk, with few commands: typed, re-run, copied,
\* recalled, cancelled, run from a menu that is expanded and left again;
\* the workers started are not followed.
OpsNext ==
    \/ \E c \in ExecCmds : Len(workers) < MaxJobs /\ on_input_submitted(c)
    \/ MaySide /\ on_input_submitted(Cmd(TRUE, "sh", 0, 0))
    \/ \E i \in 1..Len(history) : Len(workers) < MaxJobs /\ HistoryRerun(i)
    \/ \E i \in 1..Len(history) : MaySide /\ HistoryCopy(i)
    \/ action_history_prev
    \/ action_history_next
    \/ MaySide /\ kill_running_command
    \/ \E i \in Buttons : nextUid = 0 /\ PickerPressed(1, i, 0)
    \/ \E i \in Buttons : Len(workers) < MaxJobs /\ ActionPressed(1, i)
    \/ go_back(1)

SpecOps == Init /\ [][OpsNext]_vars

\* What the user does beside one streamed run: interactive commands,
\* copies, recall and cancellation.
SideNext ==
    \/ workers = <<>> /\ on_input_submitted(Cmd(FALSE, "ls", 0, 0))
    \/ MaySide /\ on_input_submitted(Cmd(TRUE, "sh", 0, 0))
    \/ \E i \in 1..Len(history) : MaySide /\ HistoryCopy(i)
    \/ MaySide /\ CopyInput
    \/ action_history_prev
    \/ action_history_next
    \/ MaySide /\ kill_running_command
    \/ \E j \in Jobs : runner_start(j)
    \/ \E j \in Jobs : runner_readline(j)
    \/ \E j \in Jobs : runner_eof(j)
    \/ \E j \in Jobs : runner_wait(j)
    \/ \E j \in Jobs : procs[j].wrote < MaxOut /\ proc_write(j)
    \/ \E j \in Jobs, rc \in ExitCodes : proc_exit(j, rc)
    \/ \E j \in Jobs : proc_reap(j)

SpecSide == Init /\ [][SideNext]_vars

\* Streamed runs one after or over the other, cancelled or not; the
\* processes write nothing.
KillNext ==
    \/ Len(workers) < KillJobs /\ on_input_submitted(Cmd(FALSE, "ls", 0, 0))
    \/ MayKill /\ kill_running_command
    \/ \E j \in Jobs : runner_start(j)
    \/ \E j \in Jobs : runner_eof(j)
    \/ \E j \in Jobs : runner_wait(j)
    \/ \E j \in Jobs, rc \in ExitCodes : proc_exit(j, rc)
    \/ \E j \in Jobs : proc_reap(j)

SpecKill == Init /\ [][KillNext]_vars

\* One dynamic list whose command has up to CapOut lines to write, more
\* than run_and_capture keeps and than the pipe holds.
InitCap ==
    /\ stack = [t \in Tabs |-> <<Node("root", 0, t, IF t = 1 THEN 2 ELSE 0)>>]
    /\ nextUid = 0
    /\ history = <<>>
    /\ hist_idx = NoIdx
    /\ cmd_input = EmptyCmd
    /\ current_proc = NoProc
    /\ was_killed = FALSE
    /\ out = MountLines
    /\ workers = <<>>
    /\ procs = <<>>
    /\ exited = FALSE
    /\ pushed = <<>>
    /\ boot = Imported

CapNext ==
    \/ \E i \in 1..2 : workers = <<>> /\ DynamicPressed(1, i)
    \/ \E j \in Jobs : capture_start(j)
    \/ \E j \in Jobs : capture_readline(j)
    \/ \E j \in Jobs : capture_eof(j)
    \/ \E j \in Jobs : capture_wait(j)
    \/ \E j \in Jobs : procs[j].wrote < CapOut /\ proc_write(j)
    \/ \E j \in Jobs, rc \in ExitCodes : proc_exit(j, rc)
    \/ \E j \in Jobs : proc_reap(j)

SpecCap == InitCap /\ [][CapNext]_vars

\* The same pane with listing commands that terminate once their output is
\* consumed: the command of the list with action templates has a few lines
\* to write, the other's has one line more than the cap and a full pipe
\* hold together.  The child exits when it has written its last line, and
\* not before.
ToWrite(j) == IF workers[j].item.actions = <<>> THEN CapOut ELSE PipeCap

CapLiveNext ==
    \/ \E i \in 1..2 : workers = <<>> /\ DynamicPressed(1, i)
    \/ \E j \in Jobs : capture_start(j)
    \/ \E j \in Jobs : capture_readline(j)
    \/ \E j \in Jobs : capture_eof(j)
    \/ \E j \in Jobs : capture_wait(j)
    \/ \E j \in Jobs : procs[j].wrote < ToWrite(j) /\ proc_write(j)
    \/ \E j \in Jobs : procs[j].wrote = ToWrite(j) /\ proc_exit(j, 0)
    \/ \E j \in Jobs : proc_reap(j)

\* The event loop runs every worker that can take a step, the kernel runs
\* every child that is not blocked, and the child watcher reaps every child
\* that has exited.
CapLiveFair ==
    /\ WF_vars(\E j \in Jobs : capture_start(j))
    /\ WF_vars(\E j \in Jobs : capture_readline(j))
    /\ WF_vars(\E j \in Jobs : capture_eof(j))
    /\ WF_vars(\E j \in Jobs : capture_wait(j))
    /\ WF_vars(\E j \in Jobs : procs[j].wrote < ToWrite(j) /\ proc_write(j))
    /\ WF_vars(\E j \in Jobs : procs[j].wrote = ToWrite(j) /\ proc_exit(j, 0))
    /\ WF_vars(\E j \in Jobs : proc_reap(j))

SpecCapLive == InitCap /\ [][CapLiveNext]_vars /\ CapLiveFair

\* One streamed run with enough output to fill a batch, cancelled or not.
StreamNext ==
    \/ workers = <<>> /\ on_input_submitted(Cmd(FALSE, "ls", 0, 0))
    \/ MayKill /\ kill_running_command
    \/ \E j \in Jobs : runner_start(j)
    \/ \E j \in Jobs : runner_readline(j)
    \/ \E j \in Jobs : runner_eof(j)
    \/ \E j \in Jobs : runner_wait(j)
    \/ \E j \in Jobs : procs[j].wrote < StreamOut /\ proc_write(j)
    \/ \E j \in Jobs, rc \in ExitCodes : proc_exit(j, rc)
    \/ \E j \in Jobs : proc_reap(j)

SpecStream == Init /\ [][StreamNext]_vars

\* ========================================================== claims
Runs == {j \in Jobs : workers[j].kind = "run"}

\* The status lines worker j wrote to the log.
StatusLines(j) ==
    {i \in 1..Len(out) : out[i].job = j /\ out[i].k \in {"killed", "done", "exit"}}

\* C1: at most one streamed child process is alive at any time: a run
\* submitted while another is Running does not start its process before
\* the earlier run has reached Completed or Killed.
C1_AtMostOneRunning ==
    Cardinality({j \in Runs : procs[j].st = "alive"}) <= 1

\* C2: every streamed run that entered Running reaches a terminal state and
\* writes exactly one final status line: a run whose coroutine is over
\* (finished or cancelled) after its process was created has written it.
C2_EndedRunHasStatusLine ==
    \A j \in Runs :
        (procs[j].st # "none" /\ workers[j].pc \in {"done", "cancelled"})
            => Cardinality(StatusLines(j)) = 1

\* C3: the status line of a run that cancel() signalled before its process
\* exited says killed, whatever the exit code; it says done only for a run
\* not cancelled that exited with 0, and exit <rc> only for a run not
\* cancelled that exited with rc # 0.
C3_KilledTakesPrecedence ==
    \A j \in Runs : \A i \in StatusLines(j) :
        /\ procs[j].sig => out[i].k = "killed"
        /\ out[i].k = "done" => (~procs[j].sig /\ procs[j].rc = 0)
        /\ out[i].k = "exit" => (~procs[j].sig /\ procs[j].rc # 0 /\ out[i].n = procs[j].rc)

\* C3 witness: a cancelled run whose process exited with 0 reported killed.
C3_Witness ==
    \E j \in Runs : \E i \in StatusLines(j) :
        procs[j].sig /\ procs[j].rc = 0 /\ out[i].k = "killed"

\* C4: the slot is occupied exactly while a streamed command is Running:
\* when it is occupied it holds the process of the run whose runner is
\* reading or waiting, and when it is empty no runner is.
C4_SlotIsTheRunningRun ==
    IF current_proc = NoProc
    THEN \A j \in Runs : workers[j].pc \notin {"read", "wait"}
    ELSE workers[current_proc].pc \in {"read", "wait"}

\* C5: cancel() with nothing running sends no signal and changes neither the
\* kill flag, the slot, the history, the recall cursor nor any navigation
\* stack; it only appends the "nothing to kill" line to the log.
NothingToKillLogged ==
    /\ Len(out') = Len(out) + 1
    /\ out'[Len(out')].k = "nokill"

C5_CancelIdleIsNoop ==
    [][ ((current_proc = NoProc /\ kill_running_command) \/ NothingToKillLogged)
          => /\ current_proc = NoProc
             /\ out' = Append(out, Line("nokill", EmptyCmd, 0, 0))
             /\ UNCHANGED <<procs, was_killed, current_proc, history, hist_idx,
                            stack, workers, cmd_input, exited>> ]_vars

\* C5 witness: cancel() was invoked with nothing running, while the
\* history, the cursor and a stack held something.
C5_Witness ==
    /\ \E i \in 1..Len(out) : out[i].k = "nokill"
    /\ current_proc = NoProc
    /\ history # <<>>
    /\ hist_idx # NoIdx
    /\ Len(stack[1]) > 1

\* C6: at quit, every streamed child process still running has been sent
\* the interrupt signal.
C6_QuitInterruptsEveryRun ==
    exited => \A j \in Runs : procs[j].st = "alive" => procs[j].sig

\* The position of run j's echo line and of its status line in the log.
EchoAt(j) == CHOOSE i \in 1..Len(out) : out[i].k = "echo" /\ out[i].job = j

StatusAt(j) == CHOOSE i \in StatusLines(j) : TRUE

\* The lines run j's process wrote, as the log shows them.
Produced(j) == [n \in 1..procs[j].wrote |-> Line("out", EmptyCmd, j, LineAt(j, n))]

IsOutput(l) == l.k = "out"

\* C7 as stated: the lines between the echo and the status line of a run
\* are exactly the lines its process produced, in order.
C7_OnlyOutputBetween ==
    \A j \in Runs : StatusLines(j) # {} =>
        SubSeq(out, EchoAt(j) + 1, StatusAt(j) - 1) = Produced(j)

\* C7, amended: the output lines between the echo and the status line of a
\* run are exactly the lines its process produced, in order, none lost,
\* duplicated or reordered, whatever the batching; none of its output is
\* outside them, so the status line comes after the last output line; lines
\* the application writes meanwhile may stand among them.
C7_OutputInOrder ==
    \A j \in Runs : StatusLines(j) # {} =>
        /\ EchoAt(j) < StatusAt(j)
        /\ SelectSeq(SubSeq(out, EchoAt(j) + 1, StatusAt(j) - 1), IsOutput) = Produced(j)
        /\ \A i \in 1..Len(out) :
              (out[i].k = "out" /\ out[i].job = j) => (EchoAt(j) < i /\ i < StatusAt(j))

\* C7 witness: a cancelled run that filled a batch and ended with a partial
\* one has its status line.
C7_Witness ==
    \E j \in Runs :
        /\ StatusLines(j) # {}
        /\ procs[j].wrote > BatchSize
        /\ \E i \in EchoAt(j)..StatusAt(j) : out[i].k = "sigint"

\* C8: every tab's stack is non-empty and starts with the tab's root; a
\* go_back at depth 1 changes nothing, and deeper it removes exactly the
\* last node of that tab's stack.
C8_RootedStackAndBack ==
    /\ [](\A t \in Tabs : Len(stack[t]) >= 1 /\ stack[t][1] = Root(t))
    /\ [][ \A t \in Tabs : go_back(t) =>
              IF Len(stack[t]) = 1
              THEN stack' = stack
              ELSE /\ Len(stack'[t]) = Len(stack[t]) - 1
                   /\ \A i \in 1..Len(stack'[t]) : stack'[t][i] = stack[t][i]
                   /\ \A u \in Tabs \ {t} : stack'[u] = stack[u] ]_vars

\* C8 witness: a second picker expansion sits right above a root, so an
\* earlier one was popped.
C8_Witness ==
    \E t \in Tabs :
        /\ Len(stack[t]) = 2
        /\ stack[t][2].kind = "picked" /\ stack[t][2].uid = 2

RECURSIVE PopN(_, _)
PopN(s, n) == IF n = 0 THEN s ELSE PopN(Pop(s), n - 1)

\* C9: a push followed by a pop restores the stack as it was before, the
\* same nodes in the same order; n pushes from the root followed by n pops
\* leave the root alone.
C9_PushThenPopRestores ==
    /\ [][ \A t \in Tabs : Len(stack'[t]) > Len(stack[t]) =>
              /\ stack'[t] = Append(stack[t], stack'[t][Len(stack'[t])])
              /\ Pop(stack'[t]) = stack[t] ]_vars
    /\ [](\A t \in Tabs : PopN(stack[t], Len(stack[t]) - 1) = <<Root(t)>>)

\* C9 witness: a dynamic list was pushed, and every stack is back at its
\* root alone.
C9_Witness ==
    /\ \E j \in Jobs : workers[j].kind = "dyn" /\ workers[j].pc = "done"
    /\ \A t \in Tabs : stack[t] = <<Root(t)>>

RECURSIVE Collapse(_)
Collapse(s) ==
    IF Len(s) <= 1 THEN s
    ELSE LET r == Collapse(SubSeq(s, 1, Len(s) - 1))
         IN  IF r[Len(r)] = s[Len(s)] THEN r ELSE Append(r, s[Len(s)])

IsCommand(c) == c # EmptyCmd

\* C10: the history is the sequence of the non-empty commands pushed, each
\* run of consecutive identical commands collapsed to one.
C10_AdjacentDedupOnly ==
    history = Collapse(SelectSeq(pushed, IsCommand))

\* C10 witness: a repeated command was collapsed, and a command is in the
\* history twice, apart.
C10_Witness ==
    /\ \E i \in 1..Len(pushed) - 1 : pushed[i] = pushed[i + 1]
    /\ \E i, k \in 1..Len(history) : i + 1 < k /\ history[i] = history[k]

\* A step that handed a command to the history, or submitted one directly.
Submitted == pushed' # pushed \/ \E c \in TypedCmds : on_input_submitted(c)

\* C11: every history push, and every direct submission of a command,
\* leaves the recall cursor at not navigating, whatever it was before and
\* whether or not the command was appended.
C11_SubmissionResetsCursor ==
    [][ Submitted => hist_idx' = NoIdx ]_vars

RECURSIVE PrevK(_, _, _)
PrevK(idx, n, k) == IF k = 0 THEN idx ELSE PrevK(recall_prev(idx, n), n, k - 1)

\* C12: with n entries and the cursor at not navigating, the k-th
\* consecutive recall_prev is at entry n-k for k <= n and at the oldest
\* entry for every k > n; each recall_prev shows the entry the cursor is
\* at, never moves the cursor towards the newest entry and never leaves
\* the history.
C12_PrevFloorsAtOldest ==
    /\ [](\A k \in 1..Len(history) + 2 :
            history # <<>> =>
                PrevK(NoIdx, Len(history), k)
                    = (IF k <= Len(history) THEN Len(history) - k ELSE 0))
    /\ [][ action_history_prev =>
              /\ hist_idx' \in 0..Len(history) - 1
              /\ hist_idx' = (IF hist_idx = NoIdx THEN Len(history) - 1
                              ELSE IF hist_idx = 0 THEN 0 ELSE hist_idx - 1)
              /\ cmd_input' = history[hist_idx' + 1]
              /\ history' = history ]_vars

\* C12 witness: the cursor is at the oldest of several entries, which the
\* input shows.
C12_Witness ==
    /\ Len(history) >= 2
    /\ hist_idx = 0
    /\ cmd_input = history[1]

\* C13: recall_next below the newest entry moves the cursor one entry up
\* and shows it; at the newest entry it sets the cursor to not navigating
\* and empties the input; at not navigating it changes nothing.
C13_NextWalksForward ==
    [][ action_history_next =>
          IF hist_idx = NoIdx THEN UNCHANGED vars
          ELSE IF hist_idx < Len(history) - 1
               THEN /\ hist_idx' = hist_idx + 1
                    /\ cmd_input' = history[hist_idx + 2]
                    /\ history' = history
               ELSE /\ hist_idx' = NoIdx
                    /\ cmd_input' = EmptyCmd
                    /\ history' = history ]_vars

\* C13 witness: the cursor is at the newest of several entries, a command
\* was pushed twice running, and the input shows the newest entry.
C13_Witness ==
    /\ Len(history) >= 3
    /\ hist_idx = Len(history) - 1
    /\ cmd_input = history[Len(history)]

\* A step that wrote the line a copy ends with.
CopyLogged ==
    /\ Len(out') = Len(out) + 1
    /\ out'[Len(out')].k \in {"copied", "copy unsupported", "copy failed"}

\* C14: a copy of a history entry changes neither the history, the recall
\* cursor, the process slot nor the kill flag, and starts no process.
C14_CopyDoesNotRun ==
    [][ ((\E i \in 1..Len(history) : HistoryCopy(i)) \/ CopyLogged) =>
          UNCHANGED <<history, hist_idx, current_proc, was_killed, workers,
                      procs, pushed>> ]_vars

\* C14 witness: an entry was copied while its command was running and the
\* cursor was on it.
C14_Witness ==
    /\ out[Len(out)].k \in {"copied", "copy unsupported", "copy failed"}
    /\ history # <<>>
    /\ hist_idx # NoIdx
    /\ current_proc # NoProc

IsPrefix(s, t) == Len(s) <= Len(t) /\ SubSeq(t, 1, Len(s)) = s

\* C15: the history is append-only: whatever the step, the history before
\* it is a prefix of the history after it.
C15_HistoryAppendOnly ==
    [][ IsPrefix(history, history') ]_vars

\* C15 witness: the history holds several entries, one was copied, the
\* cursor is on one, nothing was there to cancel and a menu was left.
C15_Witness ==
    /\ Len(history) >= 2
    /\ hist_idx # NoIdx
    /\ CountKinds(out, {"copied"}) > 0
    /\ CountKinds(out, {"nokill"}) > 0
    /\ nextUid > 0 /\ stack[1] = <<Root(1)>>

\* A step that wrote the line an interactive command ends with.
InteractiveLogged ==
    /\ Len(out') > Len(out)
    /\ out'[Len(out')].k \in {"returned", "ierror"}

\* C16: a command with the interactive: prefix does not occupy the slot,
\* does not touch the kill flag, starts no worker and streams no output
\* line; it is echoed and run without the prefix, and when the child
\* returns one line reports its exit code.
C16_InteractiveBypassesStreaming ==
    [][ ((\E c \in TypedCmds : c.ia /\ on_input_submitted(c)) \/ InteractiveLogged) =>
          /\ UNCHANGED <<current_proc, was_killed, workers, procs>>
          /\ Len(out') = Len(out) + 3
          /\ SubSeq(out', 1, Len(out)) = out
          /\ out'[Len(out) + 1].k = "blank"
          /\ out'[Len(out) + 2].k = "echo"
          /\ out'[Len(out) + 2].cmd.ia = FALSE
          /\ out'[Len(out) + 2].job = 0
          /\ out'[Len(out) + 3].k \in {"returned", "ierror"}
          /\ out'[Len(out) + 3].k = "returned" =>
                /\ out'[Len(out) + 3].n \in ExitCodes
                /\ out'[Len(out) + 3].cmd = out'[Len(out) + 2].cmd ]_vars

\* C16 witness: an interactive command returned while a cancelled run
\* still held the slot.
C16_Witness ==
    /\ out[Len(out)].k = "returned"
    /\ current_proc # NoProc
    /\ was_killed

\* -------------------------------------------------- failing expansions
\* The nodes on the stacks, below the roots.
PushedNodes == UNION {{stack[t][k] : k \in 2..Len(stack[t])} : t \in Tabs}

\* An Info entry: a labelled echo saying what is missing.
IsInfo(item) ==
    /\ ItemKind(item) = "action"
    /\ item.cmd \in {Cmd(FALSE, "echo no files", 0, 0),
                     Cmd(FALSE, "echo provide kubeconfigs", 0, 0)}

\* C18: a picker expansion that finds no file (no match, or neither file
\* list nor glob configured) gives a node whose item list is exactly one
\* Info entry; no node a picker pushes has an empty item list.
C18_NoFilesOneInfo ==
    \A node \in PushedNodes :
        node.kind \in {"picked", "noglob"} =>
            /\ Len(NodeItems(node)) >= 1
            /\ (node.kind = "noglob" \/ node.n = 0) =>
                  /\ Len(NodeItems(node)) = 1
                  /\ IsInfo(NodeItems(node)[1])

C18_Witness ==
    /\ \E node \in PushedNodes : node.kind = "picked" /\ node.n = 0
    /\ \E node \in PushedNodes : node.kind = "noglob"
    /\ \A node \in PushedNodes : node.kind \in {"picked", "noglob"}

\* C20: in a picker expansion that finds files, an action template with an
\* undefined placeholder does not abort the expansion: whatever picker is
\* on screen, its expansion returns a node with one child per file.
C20_PickerTemplateDegrades ==
    \A t \in Tabs : \A i \in 1..Len(current_items(t)) : \A nf \in 1..MaxFiles :
        ItemKind(current_items(t)[i]) = "picker" =>
            LET expanded == expand_picker_node(current_items(t)[i], nextUid + 1, nf)
            IN  /\ expanded # Raised
                /\ Len(NodeItems(expanded)) = nf

\* Worker j returns from its capture in this step.
CaptureDone(j) ==
    /\ j \in 1..Len(workers)
    /\ workers[j].kind = "dyn"
    /\ workers[j].pc # "done"
    /\ workers'[j].pc = "done"

\* A line as read, without the whitespace before and behind it.
WithoutMargins(line) == IF line > 2 * Wide THEN line - Wide ELSE line

\* The first whitespace-separated token of a line that is not blank.
FirstToken(line) == line % Wide

\* The actions of the entry of a line of a dynamic expansion are those of item's
\* templates, a template that cannot be formatted giving one echo of the
\* error; without templates, the echo of the line.
EntryRendered(item, entry, line) ==
    LET acts == item.actions
        f == item.list_cmd.file
    IN  IF acts = <<>>
        THEN /\ Len(NodeItems(entry)) = 1
             /\ NodeItems(entry)[1].cmd = Cmd(FALSE, "echo line", f, WithoutMargins(line))
        ELSE /\ Len(NodeItems(entry)) = Len(acts)
             /\ \A a \in 1..Len(acts) :
                   /\ ItemKind(NodeItems(entry)[a]) = "action"
                   /\ NodeItems(entry)[a].cmd =
                        IF acts[a].ok
                        THEN [Cmd(acts[a].ia, acts[a].verb, f, FirstToken(line))
                                 EXCEPT !.bin = acts[a].head, !.kc = acts[a].kc]
                        ELSE Cmd(FALSE, "echo Template error", 0, 0)

\* C19: a dynamic expansion never raises on an action template with an
\* undefined variable: when the capture returns, a node is pushed that
\* has one entry per non-blank line captured, and in every entry the
\* failing template has become one echo of the template error while the
\* other templates are rendered as usual.
C19_DynamicTemplateDegrades ==
    [][ \A j \in 1..Len(workers) :
          CaptureDone(j) =>
             LET t == workers[j].tab
                 node == stack'[t][Len(stack'[t])]
                 lines == NonBlank(workers'[j].buf)
             IN  /\ stack'[t] = Append(stack[t], node)
                 /\ node.kind = "dyn"
                 /\ Len(NodeItems(node)) = Len(lines)
                 /\ \A e \in 1..Len(lines) :
                       /\ ItemKind(NodeItems(node)[e]) = "submenu"
                       /\ EntryRendered(workers[j].item, NodeItems(node)[e].items, lines[e]) ]_vars

C19_Witness ==
    \E j \in 1..Len(workers) :
        /\ workers[j].kind = "dyn" /\ workers[j].pc = "done"
        /\ \E a \in 1..Len(workers[j].item.actions) : ~workers[j].item.actions[a].ok
        /\ Len(workers[j].buf) = MaxLines
        /\ Len(NonBlank(workers[j].buf)) = 1
        /\ Top(workers[j].tab).kind = "entry"
        /\ NodeItems(Top(workers[j].tab))[2].cmd = Cmd(FALSE, "echo Template error", 0, 0)

\* A well-formed submenu node: one the expansions build, every item of
\* which gets a button with something to do: a child node of the same
\* expansion, a list command, or a command.
SubmenuKinds == {"noglob", "picked", "file", "dyn", "entry"}

WellFormed(node) ==
    /\ node.kind \in SubmenuKinds
    /\ \A i \in 1..Len(NodeItems(node)) :
          LET item == NodeItems(node)[i]
          IN  CASE ItemKind(item) = "submenu" ->
                      item.items.kind \in SubmenuKinds /\ item.items.uid = node.uid
                [] ItemKind(item) = "dynamic" -> item.list_cmd # EmptyCmd
                [] ItemKind(item) = "action" -> item.cmd # EmptyCmd
                [] OTHER -> FALSE

\* The step logs a failure: a dynamic item without list command, a
\* command that exits non-zero or is killed.
FailureLogged ==
    /\ Len(out') > Len(out)
    /\ out'[Len(out')].k \in {"missing list_cmd", "exit", "killed"}

\* C17: no step corrupts the navigation: every step leaves each tab's
\* stack unchanged, extended by exactly one well-formed submenu node, or
\* (Back) without its top node; a step that reports a failure (empty
\* list_cmd, non-zero exit, killed command) leaves every stack as it is;
\* a failed expansion pushes at most its one well-formed node; and the
\* application has not exited.
C17_FailuresKeepNavigation ==
    [][ /\ ~exited'
        /\ \A t \in Tabs :
              \/ stack'[t] = stack[t]
              \/ /\ stack'[t] = Append(stack[t], stack'[t][Len(stack'[t])])
                 /\ WellFormed(stack'[t][Len(stack'[t])])
              \/ Len(stack[t]) > 1 /\ stack'[t] = Pop(stack[t])
        /\ FailureLogged => stack' = stack ]_vars

C17_Witness ==
    /\ \E i \in 1..Len(out) : out[i].k = "missing list_cmd"
    /\ \E i \in 1..Len(out) : out[i].k = "exit" /\ out[i].n = 1
    /\ stack[1] = <<Node("root", 0, 1, 2)>>
    /\ ~exited

\* ------------------------------------------------ cancelling too late
\* The step is a cancellation (the Kill button, Ctrl+C) that found a
\* process in the slot.
KillAttempt ==
    /\ current_proc # NoProc
    /\ Len(out') = Len(out) + 1
    /\ out'[Len(out')].k \in {"sigint", "finished"}

\* C30: a cancellation issued when the process in the slot has already
\* exited writes only the informational line and does not raise the kill
\* flag, so that the run's status line reports how the process ended.
C30_LateCancelSwallowed ==
    [][ (KillAttempt /\ procs[current_proc].st # "alive") =>
            /\ out'[Len(out')].k = "finished"
            /\ was_killed' = was_killed ]_vars

\* ------------------------------------------------- one behaviour each
\* The behaviour of a menu node by the priority of its keys.
Behaviour(item) ==
    IF item.items # NoNode THEN "Submenu"
    ELSE IF item.picker THEN "Picker"
    ELSE IF item.list_cmd # NoCmd THEN "DynamicList"
    ELSE IF item.cmd # NoCmd THEN "Action"
    ELSE "Info"

\* What a step of pane t did is the behaviour of item: its child pushed,
\* its expansion pushed, its list command captured, its command run, the
\* echo of an Info node run.
Triggered(t, item) ==
    LET top == stack'[t][Len(stack'[t])]
        w == workers'[Len(workers')]
    IN  CASE Behaviour(item) = "Submenu" ->
                stack'[t] = Append(stack[t], item.items) /\ workers' = workers
          [] Behaviour(item) = "Picker" ->
                /\ stack'[t] = Append(stack[t], top)
                /\ top.kind \in {"picked", "noglob"}
                /\ workers' = workers
          [] Behaviour(item) = "DynamicList" ->
                /\ stack' = stack
                /\ Len(workers') = Len(workers) + 1
                /\ w.kind = "dyn" /\ w.cmd = item.list_cmd
          [] Behaviour(item) = "Action" ->
                /\ stack' = stack
                /\ Len(workers') = Len(workers) + 1
                /\ w.kind = "run" /\ w.cmd = item.cmd
          [] OTHER ->
                /\ stack' = stack
                /\ Len(workers') = Len(workers) + 1
                /\ w.kind = "run" /\ w.cmd = Cmd(FALSE, "echo No action for", 0, 0)

\* C21: selecting a menu node triggers one behaviour, the one its keys
\* give by the priority items > picker > list_cmd > cmd > none: a step
\* that pushes a node or starts a worker is the behaviour of one of the
\* nodes on screen, and an Info node runs its echo.
C21_OneBehaviourByPriority ==
    [][ (Len(stack'[1]) > Len(stack[1]) \/ Len(workers') > Len(workers)) =>
            \E i \in 1..Len(current_items(1)) : Triggered(1, current_items(1)[i]) ]_vars

C21_Witness ==
    /\ stack[1] = <<Node("root", 0, 1, 3), SubNode>>
    /\ nextUid > 0
    /\ \E j \in 1..Len(workers) : workers[j].cmd = Cmd(FALSE, "echo No action for", 0, 0)
    /\ \E j \in 1..Len(workers) : workers[j].kind = "dyn"

\* ------------------------------------------------------ rendered order
\* The sort key (order, label) of a child node, compared.
KeyLess(a, b) ==
    \/ a.order < b.order
    \/ /\ a.order = b.order
       /\ \/ LabelRank(a.label) < LabelRank(b.label)
          \/ a.label.text = b.label.text /\ a.label.n < b.label.n

\* x inserted in a sorted sequence after the elements that are not greater.
RECURSIVE InsertSorted(_, _)
InsertSorted(x, sorted) ==
    IF sorted = <<>> THEN <<x>>
    ELSE IF KeyLess(x, Head(sorted)) THEN <<x>> \o sorted
    ELSE <<Head(sorted)>> \o InsertSorted(x, Tail(sorted))

\* The stable sort of items by (order, label).
RECURSIVE StableSort(_)
StableSort(items) ==
    IF items = <<>> THEN <<>>
    ELSE InsertSorted(items[Len(items)], StableSort(SubSeq(items, 1, Len(items) - 1)))

\* C22: in every view, the children are rendered in the stable sort by
\* (order ascending, label lexicographic), a node without order sorting
\* after those with one.
C22_RenderedSorted ==
    \A t \in Tabs : current_items(t) = StableSort(NodeItems(Top(t)))

\* ------------------------------------------- the picker's file children
\* The file children a picker has put on the stacks.
FileNodes == {node \in PushedNodes : node.kind = "file"}

\* The items of a node that get a dynamic-list button.
DynamicItems(node) ==
    {i \in 1..Len(NodeItems(node)) : ItemKind(NodeItems(node)[i]) = "dynamic"}

\* The caller's actions define a dynamic list.
OwnDynamic(node) == \E a \in 1..Len(node.acts) : node.acts[a].list_cmd

\* C24: every file child holds exactly one pods dynamic list: the one the
\* caller's actions define, kept as a dynamic list and with no default
\* beside it, or else the default "Pods (choose)".
C24_OnePodsList ==
    \A node \in FileNodes :
        /\ Cardinality(DynamicItems(node)) = 1
        /\ IF OwnDynamic(node)
           THEN \A i \in DynamicItems(node) : i <= Len(node.acts) /\ node.acts[i].list_cmd
           ELSE DynamicItems(node) = {Len(NodeItems(node))}

\* C25: every command generated from an action template for a file
\* refers to the picker's environment variable or is prefixed with
\* VAR=<the file's path>.
C25_EnvVarInjected ==
    \A node \in FileNodes : \A a \in 1..Len(node.acts) :
        node.acts[a].env \/ NodeItems(node)[a].cmd.envp

\* C26: every action command of a file child that begins with kubectl,
\* bare or the configured binary, is the configured binary followed by
\* exactly one --kubeconfig flag, the file's.
C26_OneKubeconfigFlag ==
    \A node \in FileNodes : \A i \in 1..Len(NodeItems(node)) :
        LET cmd == NodeItems(node)[i].cmd
        IN  (ItemKind(NodeItems(node)[i]) = "action" /\ cmd.bin \in {"kubectl", "KUBECTL"}) =>
                cmd.bin = "KUBECTL" /\ cmd.kc = <<node.idx>>

\* ------------------------------------------------ lines to entries
\* The lines that are not blank, each without its margins.
RECURSIVE EntryLines(_)
EntryLines(lines) ==
    IF lines = <<>> THEN <<>>
    ELSE IF Head(lines) = 0 THEN EntryLines(Tail(lines))
    ELSE <<WithoutMargins(Head(lines))>> \o EntryLines(Tail(lines))

DefaultPodActions(f, pod) ==
    << Kubectl(Cmd(FALSE, "describe pod", f, pod), <<f>>),
       Kubectl(Cmd(FALSE, "logs -f", f, pod), <<f>>),
       Kubectl(Cmd(FALSE, "logs --tail=100", f, pod), <<f>>),
       Kubectl(Cmd(TRUE, "exec bash", f, pod), <<f>>),
       Kubectl(Cmd(TRUE, "exec sh", f, pod), <<f>>) >>

\* C28: the expansion of the platform's "Pods (choose)" list (entry
\* label {T0}, no custom actions) has one entry per non-blank line,
\* labelled with the line's first token, and every entry holds the
\* platform's pod actions for that pod.
C28_PodEntries ==
    [][ \A j \in 1..Len(workers) :
          (CaptureDone(j) /\ workers[j].item.label = Lbl("Pods (choose)", 0)) =>
             LET t == workers[j].tab
                 f == workers[j].item.list_cmd.file
                 node == stack'[t][Len(stack'[t])]
                 lines == EntryLines(workers'[j].buf)
             IN  /\ Len(NodeItems(node)) = Len(lines)
                 /\ \A e \in 1..Len(lines) :
                       LET child == NodeItems(node)[e]
                       IN  /\ child.label = Lbl("name", FirstToken(lines[e]))
                           /\ [a \in 1..Len(NodeItems(child.items)) |->
                                  NodeItems(child.items)[a].cmd]
                                = DefaultPodActions(f, FirstToken(lines[e])) ]_vars

C28_Witness ==
    /\ Top(1).kind = "entry" /\ Top(1).idx > Wide
    /\ Top(1).acts = PodTemplates(Top(1).n)
    /\ Len(current_items(1)) = 5
    /\ \E j \in 1..Len(workers) : workers[j].pc = "done" /\ workers[j].buf[1] = 0

\* ------------------------------------------------ the glob of a picker
\* The first non-empty pattern of a chain ("" when all are empty).
RECURSIVE FirstNonEmpty(_)
FirstNonEmpty(chain) ==
    IF chain = <<>> THEN ""
    ELSE IF Head(chain) # "" THEN Head(chain)
    ELSE FirstNonEmpty(Tail(chain))

\* The glob of the section of a configuration: its kubeconfig_glob, else
\* <dir>/*.yaml of its kubeconfig_dir, "" without section.
SectionGlob(cfg) ==
    IF ~cfg.section THEN ""
    ELSE IF cfg.sglob # "" THEN cfg.sglob
    ELSE IF cfg.dir # "" THEN cfg.dir \o "/*.yaml"
    ELSE ""

\* C23: whatever the configuration, when no file list applies the pattern
\* a picker on screen is expanded with is the first non-empty one of its
\* own glob, the glob of the tab's section and the global default; the
\* section's glob is used only by a picker that declares none.
C23_NodeGlobFirst ==
    \A t \in Tabs : \A i \in 1..Len(current_items(t)) : \A cfg \in Configs :
        (ItemKind(current_items(t)[i]) = "picker" /\ ~cfg.files) =>
            LET item == current_items(t)[i]
                src == PathSource(item, cfg)
            IN  /\ src.pat = FirstNonEmpty(<<item.glob, SectionGlob(cfg), cfg.glob>>)
                /\ (src.pat # "" /\ src.pat = SectionGlob(cfg)) => item.glob = ""

\* ------------------------------------------------ malformed documents
Malformed(doc) == doc.kind \in {"unparsable", "falsy", "truthy"}

\* C29: once the import is over, a document that could not be parsed or
\* whose top-level value is no object has not aborted it: every such
\* document has given an error tab with one Info entry, and every section
\* of the other document has still given its tab.
C29_MalformedGivesErrorTab ==
    LET docs == boot.docs
        tabs == boot.tabs
    IN  (boot.st # "start" /\ (Malformed(docs[1]) \/ Malformed(docs[2]))) =>
               /\ boot.st = "loaded"
               /\ \A d \in 1..2 :
                     IF Malformed(docs[d])
                     THEN \E k \in 1..Len(tabs) :
                             /\ tabs[k].entry = "info"
                             /\ tabs[k].title # "No config found"
                     ELSE \A e \in 1..Len(docs[d].keys) :
                             \E k \in 1..Len(tabs) : tabs[k] = Tab(docs[d].keys[e], "picker")

\* ------------------------------------------------ the recall cursor
\* C34: the recall cursor is not navigating or the index of an entry of
\* the history, counted from 0; with an empty history it is not navigating
\* and neither recall_prev nor recall_next has any effect.
C34_CursorInRange ==
    /\ hist_idx = NoIdx \/ hist_idx \in 0..Len(history) - 1
    /\ history = <<>> =>
          /\ hist_idx = NoIdx
          /\ ~ENABLED action_history_prev
          /\ ~ENABLED action_history_next

\* C34 witness: the cursor is at an entry that is neither the oldest nor
\* the newest.
C34_Witness ==
    /\ Len(history) >= 3
    /\ hist_idx = 1

\* ------------------------------------------- interactive and history
\* A step that started the worker of a streamed command.
StreamedSubmitted ==
    /\ Len(workers') = Len(workers) + 1
    /\ workers'[Len(workers')].kind = "run"

\* C36: a step that runs an interactive command leaves the history and
\* the recall cursor as they were, and no entry of the history ever
\* carries the interactive prefix; a step that submits a streamed command
\* hands it to the history, where it is the newest entry from then on,
\* while its process is not yet started.
C36_InteractiveLeavesHistory ==
    [][ /\ InteractiveLogged => UNCHANGED <<history, hist_idx, pushed>>
        /\ \A i \in 1..Len(history') : ~history'[i].ia
        /\ StreamedSubmitted =>
              LET cmd == workers'[Len(workers')].cmd
              IN  /\ cmd # EmptyCmd
                  /\ pushed' = Append(pushed, cmd)
                  /\ history' # <<>> /\ history'[Len(history')] = cmd
                  /\ workers'[Len(workers')].pc = "start"
                  /\ procs'[Len(workers')].st = "none" ]_vars

\* C36 witness: an interactive command has returned while the cursor was
\* on an entry of a history of several streamed commands.
C36_Witness ==
    /\ out[Len(out)].k = "returned"
    /\ Len(history) >= 2
    /\ hist_idx # NoIdx

\* ------------------------------------------------ re-running an entry
\* The re-run of entry i hands exactly that entry's command to
\* run_command: it is shown in the input, handed to the history and
\* echoed, and a worker is started for it.
RerunSubmits(i) ==
    /\ cmd_input' = history[i]
    /\ pushed' = Append(pushed, history[i])
    /\ Len(workers') = Len(workers) + 1
    /\ workers'[Len(workers')].cmd = history[i]
    /\ out'[Len(out')] = Line("echo", history[i], Len(workers'), 0)

\* C37 as stated: the re-run of an entry submits that entry's command; the
\* history is unchanged when the entry is the newest one, and has the
\* command appended, the older entry staying in place, when it is an
\* older one.
C37_RerunAppendsOlder ==
    [][ \A i \in 1..Len(history) :
          HistoryRerun(i) =>
             /\ RerunSubmits(i)
             /\ IF i = Len(history)
                THEN history' = history
                ELSE history' = Append(history, history[i]) ]_vars

\* C37 amended: the re-run of an entry submits that entry's command; the
\* history is unchanged when the command is the one of the newest entry
\* (the entry is the newest one, or an older one with the same command),
\* and has the command appended, the older entry staying in place,
\* otherwise.
C37_RerunAppendsUnlessNewest ==
    [][ \A i \in 1..Len(history) :
          HistoryRerun(i) =>
             /\ RerunSubmits(i)
             /\ IF history[i] = history[Len(history)]
                THEN history' = history
                ELSE history' = Append(history, history[i]) ]_vars

\* C37 witness: an older entry was re-run whose command is not the newest
\* entry's, and then again, being the newest entry's by then.
C37_Witness ==
    /\ Len(history) = 3
    /\ history[1] = history[3] /\ history[2] # history[1]
    /\ Len(pushed) = 4
    /\ pushed[3] = history[1] /\ pushed[4] = history[1]
    /\ cmd_input = history[1]

\* ------------------------------------------------ the kill flag
\* A step in which the runner of job j wrote its status line, of kind k.
StatusWritten(j, k) ==
    /\ workers[j].kind = "run"
    /\ workers[j].pc # "done" /\ workers'[j].pc = "done"
    /\ out'[Len(out')].k = k
    /\ out'[Len(out')].job = j

\* C33: the status line of a run says killed only if a SIGINT was sent to
\* that run's own process, which happens only while it is in the slot; a
\* run that starts finds the kill flag lowered, whatever it was.
C33_KilledMeansSignalled ==
    [][ /\ \A j \in 1..Len(workers) :
              /\ StatusWritten(j, "killed") => procs[j].sent /\ current_proc = j
              /\ runner_start(j) => ~was_killed'
        /\ \A j \in 1..Len(procs) :
              (procs'[j].sent /\ ~procs[j].sent) => current_proc = j ]_vars

\* C33 witness: a run was cancelled and reported killed; the next run
\* started with the flag still raised and ended without being cancelled,
\* with the status of its exit code.
C33_Witness ==
    /\ Len(workers) = 2
    /\ procs[1].sent /\ ~procs[2].sent
    /\ workers[2].pc = "done"
    /\ \E p, q \in 1..Len(out) :
          /\ p < q
          /\ out[p].k = "killed" /\ out[p].job = 1
          /\ out[q].k \in {"done", "exit"} /\ out[q].job = 2

\* ------------------------------------------------ the capture cap
\* The first k lines process j wrote, in order.
Written(j, k) == [e \in 1..k |-> LineAt(j, e)]

\* The lines of a sequence, each without its margins.
EachWithoutMargins(seq) == [e \in 1..Len(seq) |-> WithoutMargins(seq[e])]

\* C31: when the capture of a dynamic list returns, its lines are the
\* first min(n, max_lines) of the n lines the command wrote, in order, and
\* the node pushed has its entries from these lines and from no other.
C31_CaptureCapped ==
    [][ \A j \in 1..Len(workers) :
          CaptureDone(j) =>
             LET n == procs'[j].wrote
                 kept == IF n < max_lines THEN n ELSE max_lines
                 t == workers[j].tab
                 node == stack'[t][Len(stack'[t])]
                 sel == SelectSeq(Written(j, kept), LAMBDA l : l # 0)
             IN  /\ procs'[j].st = "reaped"
                 /\ workers'[j].buf = Written(j, kept)
                 /\ node.kind = "dyn"
                 /\ node.lines = EachWithoutMargins(sel)
                 /\ Len(NodeItems(node)) = Len(sel) ]_vars

\* C31 witness: the command wrote more lines than the cap, and the node
\* on top has as many entries as the cap.
C31_Witness ==
    /\ Len(workers) = 1
    /\ workers[1].pc = "done"
    /\ procs[1].wrote > max_lines
    /\ Top(1).kind = "dyn"
    /\ Len(current_items(1)) = max_lines


\* C35: the capture of a dynamic list always completes in the end and its
\* node is pushed, also when the command has more lines to write than the
\* capture keeps; the command terminates once its output is consumed.
C35_CaptureCompletes ==
    (Len(workers) >= 1 /\ workers[1].kind = "dyn")
        ~> (Len(workers) >= 1 /\ workers[1].pc = "done" /\ Top(1).kind = "dyn")

\* The items the view on top of pane t shows include the given one.
Shows(t, item) == \E i \in 1..Len(current_items(t)) : current_items(t)[i] = item

\* C32: when the expansion of a dynamic list completes, the stack of its
\* pane is the stack at the moment of the selection plus the expanded node,
\* whatever was pressed while the capture was in flight: the node is pushed
\* and the view it is pushed onto is the view of the selection, which shows
\* the item selected.
C32_PushedOntoSelectionView ==
    [][ \A j \in 1..Len(workers) :
          CaptureDone(j) =>
             LET t == workers[j].tab
             IN  /\ stack'[t] = Append(stack[t], stack'[t][Len(stack'[t])])
                 /\ Shows(t, workers[j].item) ]_vars

====
